---- MODULE Spec2Model ----
(***************************************************************************)
(* Model of the offline-resilient synchronisation engine of the test tool: *)
(* DataCache (the persistent cache with the pending-submission queue) and  *)
(* TestPanelClient (submission, online status, drain of the queue), from   *)
(* src/test_tool_src/api_client.py, and the threads of                     *)
(* src/test_tool_src/panel_integration.py that call them; the upload of a  *)
(* session from src/test_tool_src/main.py; and PanelIntegration with its   *)
(* ApiWorker.                                                              *)
(***************************************************************************)
EXTENDS Integers, Sequences, FiniteSets, TLC

VARIABLES
    running,     \* whether a process of the tool is alive
    data,        \* DataCache._data
    dirty,       \* DataCache._dirty
    disk,        \* the cache file
    is_online,   \* TestPanelClient._is_online
    stack,       \* active calls of _process_pending_submissions, outermost first
    cont,        \* the public call that is still running ("none" when idle)
    clock,       \* datetime.now(), as a logical clock
    faults,      \* failed responses the environment has produced so far
    net,         \* "flaky": requests may fail; "stable": every request is accepted
    cyc,         \* history of the current (or just finished) drain cycle
    delivered,   \* history: created_at of the entries the server has accepted
    ev,          \* history: what the last step did
    tpc,         \* per thread: position inside a queue mutation
    tloc,        \* per thread: the queue mutation it is running
    session,     \* Controller.session: results and upload_hashes per version
    up,          \* the upload of the session that is under way, with its history
    req,         \* history: the last network request and the thread that ran it
    offline_mode, \* PanelIntegration._offline_mode
    wk,          \* the ApiWorker: task list, mutex, positions of caller and loop
    poll,        \* the flag polling thread of the Controller and its stop event
    callbacks,   \* TestPanelClient._online_callbacks
    notified,    \* history: the callbacks the last status update invoked
    note,        \* the notes of a test: editor, result, digest input, request
    hashing,     \* a version's result dict, its logs and the digest computed
    subs,        \* the upload file and the submission threads started
    cache        \* the keys of DataCache._data after a load, and the last cache call

vars == <<running, data, dirty, disk, is_online, stack, cont, clock, faults,
          net, cyc, delivered, ev, tpc, tloc, session, up, req, offline_mode, wk,
          poll, callbacks, notified, note, hashing, subs, cache>>

----------------------------------------------------------------------------
(* Bounds of the model *)

MaxPending == 2      \* entries the pending queue may hold
MaxFaults == 2       \* failed responses (transport or rejection) in a run
MaxTasks == 3        \* calls of ApiWorker.queue_task in a run
MaxCallbacks == 2    \* registrations in _online_callbacks

(* DataCache.CACHE_VERSION *)
CACHE_VERSION == 1

(* the client versions a report may hold *)
Versions == {1, 2}
(* the values str(uuid.uuid4())[:8] may take *)
Ids == {"1f0c9a2e", "b7d41c55"}
(* the values of created_at *)
Keys == 1..(MaxFaults + 1)
Threads == {"submit", "worker", "ui"}

----------------------------------------------------------------------------
(* Reports and their notes *)

(* The notes a report comes with: plain text, Qt rich text, and rich text   *)
(* whose markup characters are entity-escaped.                              *)
RawNotes == {"<b>a</b>", "&lt;b&gt;a&lt;/b&gt;"}

(* clean_notes_for_api on these notes: tags are stripped, then entities     *)
(* are decoded (in this order, once).                                       *)
clean_notes_for_api(notes) ==
    CASE notes = "" -> ""
      [] notes = "a" -> "a"
      [] notes = "<b>a</b>" -> "a"
      [] notes = "&lt;b&gt;a&lt;/b&gt;" -> "<b>a</b>"
      [] OTHER -> notes

(* A report document: the versions of the batch and the notes of its       *)
(* results.                                                                 *)
InputDocs ==
    {[vers |-> {1}, notes |-> "<b>a</b>"],
     [vers |-> Versions, notes |-> "&lt;b&gt;a&lt;/b&gt;"]}
NoDoc == [vers |-> {}, notes |-> ""]

prepare_data_for_api(doc) ==
    [doc EXCEPT !.notes = clean_notes_for_api(@)]

----------------------------------------------------------------------------
(* DataCache *)

DefaultData ==
    [cache_version |-> CACHE_VERSION,
     versions |-> <<>>,
     tests |-> <<>>,
     pending_submissions |-> <<>>,
     is_online |-> FALSE]

(* What the server answers to versions.php and tests.php *)
ServerVersions == <<"v1">>
ServerTests == <<"t1">>

MissingFile == [kind |-> "missing", doc |-> DefaultData]
DocFile(d) == [kind |-> "doc", doc |-> d]
(* A file that was truncated by open(path, 'w') and not, or only partly,   *)
(* written: json.load raises on it.                                        *)
TruncatedFile == [kind |-> "truncated", doc |-> DefaultData]

(* PendingSubmission.to_dict of a new entry *)
PendingSubmission(id, file_path, doc, created_at) ==
    [id |-> id, file_path |-> file_path, data |-> doc,
     created_at |-> created_at, attempts |-> 0, last_error |-> "none"]

(* A file that open() refuses to read, and one that holds JSON that is not *)
(* an object: open raises, data.get raises.                                *)
UnreadableFile == [kind |-> "unreadable", doc |-> DefaultData]
NotAnObjectFile == [kind |-> "not_object", doc |-> DefaultData]

(* a load that takes whatever the file holds *)
_load_unchecked(file) == file.doc

(* DataCache._load: the record the constructor ends with; every exception  *)
(* is caught and leaves the default record                                 *)
_load(file) ==
    IF file.kind = "missing" THEN DefaultData
    ELSE IF file.kind \in {"truncated", "unreadable", "not_object"} THEN DefaultData
    ELSE IF file.doc.cache_version # CACHE_VERSION THEN DefaultData
    ELSE file.doc

(* The pending list a cache file holds *)
FilePending(file) ==
    IF file.kind = "doc" THEN file.doc.pending_submissions ELSE <<>>

(* DataCache.save, as one step, on the state bundle c; io is what the     *)
(* file system does: "ok", or "open_err" (open raises, the file is left    *)
(* as it was, save returns False).                                         *)
save(c, io) ==
    IF ~c.dirty THEN c
    ELSE IF io = "ok" THEN [c EXCEPT !.disk = DocFile(c.data), !.dirty = FALSE]
    ELSE c

(* index of the first entry carrying id, 0 when there is none *)
FirstWithId(pending, id) ==
    IF \E i \in 1..Len(pending) : pending[i].id = id
    THEN CHOOSE i \in 1..Len(pending) :
            /\ pending[i].id = id
            /\ \A j \in 1..(i-1) : pending[j].id # id
    ELSE 0

RemoveAt(s, i) == SubSeq(s, 1, i-1) \o SubSeq(s, i+1, Len(s))

(* the part of add_pending_submission, remove_pending_submission and       *)
(* update_pending_submission that changes _data, before the save            *)
Appended(c, file_path, doc, id) ==
    [c EXCEPT
        !.data.pending_submissions =
            Append(@, PendingSubmission(id, file_path, doc, c.clock + 1)),
        !.clock = @ + 1,
        !.dirty = TRUE]

Removed(c, id) ==
    [c EXCEPT !.data.pending_submissions = RemoveAt(@, FirstWithId(@, id)),
              !.dirty = TRUE]

Updated(c, id, attempts, error) ==
    LET i == FirstWithId(c.data.pending_submissions, id) IN
    [c EXCEPT !.data.pending_submissions[i].attempts = attempts,
              !.data.pending_submissions[i].last_error = error,
              !.dirty = TRUE]

(* add_pending_submission with the list rebuilt instead of appended to *)
add_pending_submission_rebuilding(c, file_path, doc, id, io) ==
    save([c EXCEPT
            !.data.pending_submissions =
                <<PendingSubmission(id, file_path, doc, c.clock + 1)>>,
            !.clock = @ + 1,
            !.dirty = TRUE], io)

add_pending_submission(c, file_path, doc, id, io) ==
    save(Appended(c, file_path, doc, id), io)

remove_pending_submission(c, id, io) ==
    IF FirstWithId(c.data.pending_submissions, id) = 0 THEN c
    ELSE save(Removed(c, id), io)

update_pending_submission(c, id, attempts, error, io) ==
    IF FirstWithId(c.data.pending_submissions, id) = 0 THEN c
    ELSE save(Updated(c, id, attempts, error), io)

set_online_status(c, online) ==
    [c EXCEPT !.data.is_online = online, !.dirty = TRUE]

set_versions(c, versions) ==
    [c EXCEPT !.data.versions = versions, !.dirty = TRUE]

set_tests(c, tests) ==
    [c EXCEPT !.data.tests = tests, !.dirty = TRUE]

(* a clear that keeps nothing *)
clear_everything(c, io) ==
    save([c EXCEPT !.data = DefaultData, !.dirty = TRUE], io)

(* DataCache.clear *)
clear(c, io) ==
    save([c EXCEPT
            !.data = [DefaultData EXCEPT
                        !.pending_submissions = c.data.pending_submissions],
            !.dirty = TRUE], io)

----------------------------------------------------------------------------
(* TestPanelClient: online status and the drain of the pending queue *)

NoCycle ==
    [state |-> "none", start |-> <<>>, sent |-> [k \in Keys |-> 0],
     acc |-> {}, rej |-> [k \in Keys |-> "none"], returned |-> 0]

(* The state the operators below transform *)
Cur ==
    [data |-> data, dirty |-> dirty, disk |-> disk, online |-> is_online,
     stack |-> stack, clock |-> clock, cyc |-> cyc, delivered |-> delivered,
     callbacks |-> callbacks, notified |-> notified]

(* the frame of the innermost running drain and the entry it is submitting *)
TopFrame(c) == c.stack[Len(c.stack)]
CurrentSubmission(c) == TopFrame(c).pending[TopFrame(c).i]

(* _make_request('POST', '/api/submit.php') for the entry the innermost     *)
(* drain is at: the request goes on the wire.                               *)
SendRetry(c) ==
    [c EXCEPT !.cyc.sent[CurrentSubmission(c).created_at] = @ + 1]

(* _process_pending_submissions up to its first request: the snapshot of    *)
(* the queue is taken and its first entry is submitted.                     *)
_process_pending_submissions(c) ==
    LET pending == c.data.pending_submissions IN
    IF pending = <<>> THEN c
    ELSE LET c1 == IF c.stack = <<>>
                   THEN [c EXCEPT !.cyc = [NoCycle EXCEPT !.state = "running",
                                                         !.start = pending]]
                   ELSE c
         IN SendRetry([c1 EXCEPT
                         !.stack = Append(@, [pending |-> pending, i |-> 1,
                                              success_count |-> 0])])

(* the drain condition with the direction of the change left out *)
StartsDrainOnAnyChange(was_online, online) == TRUE

(* the condition under which _update_online_status drains the queue *)
StartsDrain(was_online, online) == online /\ ~was_online

(* the loop over _online_callbacks without its try/except: the first       *)
(* callback that raises ends it                                             *)
RECURSIVE NotifyUntilRaise(_, _)
NotifyUntilRaise(cbs, online) ==
    IF cbs = <<>> THEN <<>>
    ELSE IF Head(cbs) = "raising" THEN <<[callback |-> Head(cbs), status |-> online]>>
    ELSE <<[callback |-> Head(cbs), status |-> online]>>
             \o NotifyUntilRaise(Tail(cbs), online)

(* the loop over _online_callbacks: every callback is called with the new   *)
(* status, what it raises is logged                                         *)
Notify(cbs, online) ==
    [i \in 1..Len(cbs) |-> [callback |-> cbs[i], status |-> online]]

_update_online_status(c, online) ==
    LET was_online == c.online
        c0 == set_online_status([c EXCEPT !.online = online], online)
        c1 == [c0 EXCEPT !.notified = IF was_online # online
                                      THEN Notify(c.callbacks, online) ELSE <<>>]
    IN IF was_online # online /\ StartsDrain(was_online, online)
       THEN _process_pending_submissions(c1)
       ELSE c1

RECURSIVE NextSubmission(_)

(* the loop body after submit_report_data returned success *)
RetrySucceeded(c) ==
    LET c1 == remove_pending_submission(c, CurrentSubmission(c).id, "ok") IN
    NextSubmission([c1 EXCEPT !.stack[Len(c.stack)].success_count = @ + 1])

(* the loop body after submit_report_data returned a failed result *)
RetryFailed(c, error) ==
    LET sub == CurrentSubmission(c) IN
    NextSubmission(
        update_pending_submission(
            [c EXCEPT !.cyc.rej[sub.created_at] = error],
            sub.id, sub.attempts + 1, error, "ok"))

(* the for loop of _process_pending_submissions moves on: the next entry   *)
(* of the snapshot is submitted, or the call returns to its caller, which   *)
(* is the success path of the submit_report_data of the enclosing drain.    *)
NextSubmission(c) ==
    LET n == Len(c.stack)
        f == c.stack[n]
    IN IF f.i < Len(f.pending)
       THEN SendRetry([c EXCEPT !.stack[n].i = f.i + 1])
       ELSE LET c1 == [c EXCEPT !.stack = SubSeq(@, 1, n - 1)] IN
            IF n = 1 THEN [c1 EXCEPT !.cyc.state = "done",
                                     !.cyc.returned = f.success_count]
            ELSE RetrySucceeded(c1)

(* what the public call does after its _update_online_status(True) *)
Finish(c, op) ==
    IF op = "get_versions" THEN save(set_versions(c, ServerVersions), "ok")
    ELSE IF op = "get_tests" THEN save(set_tests(c, ServerTests), "ok")
    ELSE c

Complete(c, op) == IF c.stack = <<>> THEN Finish(c, op) ELSE c

Install(c) ==
    /\ data' = c.data
    /\ dirty' = c.dirty
    /\ disk' = c.disk
    /\ is_online' = c.online
    /\ stack' = c.stack
    /\ clock' = c.clock
    /\ cyc' = c.cyc
    /\ delivered' = c.delivered
    /\ callbacks' = c.callbacks
    /\ notified' = c.notified

Ev(op, outcome, qio, sent, upd, was, now) ==
    [op |-> op, outcome |-> outcome, qio |-> qio, sent |-> sent,
     upd |-> upd, was |-> was, now |-> now]

Answers == {"ok", "reject", "transport"}

(* the environment: a failing answer needs a flaky network and budget *)
Answer(outcome) ==
    /\ outcome \in Answers
    /\ outcome # "ok" => net = "flaky" /\ faults < MaxFaults
    /\ faults' = IF outcome = "ok" THEN faults ELSE faults + 1
    /\ UNCHANGED net

Idle == running /\ stack = <<>>

(* a public call starts: the history of the previous drain is dropped *)
Fresh == [Cur EXCEPT !.cyc = NoCycle]

UNCHANGED_threads ==
    UNCHANGED <<tpc, tloc, session, up, req, offline_mode, wk, poll, note,
                hashing, subs, cache>>

----------------------------------------------------------------------------
(* The public calls of TestPanelClient, on one thread *)

(* every failed answer taken for a failure of the connection *)
any_failure(outcome) == outcome # "ok"

(* the except clauses of submit_report and submit_report_data catch the    *)
(* exceptions of requests (ConnectionError, Timeout, RequestException): an *)
(* answer with a status of its own raises none                             *)
raises_RequestException(outcome) == outcome = "transport"

(* submit_report (file_path a file) and submit_report_data (file_path ""): *)
(* doc is the report, outcome what happens to the request.                 *)
Submit(op, file_path, doc, queue_if_offline, outcome) ==
    LET body == prepare_data_for_api(doc) IN
    /\ Idle
    /\ Answer(outcome)
    /\ ev' = Ev(op, outcome, queue_if_offline, body,
                outcome # "reject", is_online, outcome = "ok")
    /\ running' = running
    /\ UNCHANGED_threads
    /\ IF outcome = "ok"
       THEN LET c == _update_online_status(Fresh, TRUE) IN
            /\ Install(Complete(c, op))
            /\ cont' = IF c.stack = <<>> THEN "none" ELSE op
       ELSE IF ~raises_RequestException(outcome)
       THEN /\ Install(Fresh)
            /\ cont' = "none"
       ELSE LET c == _update_online_status(Fresh, FALSE) IN
            /\ cont' = "none"
            /\ IF queue_if_offline
               THEN /\ Len(data.pending_submissions) < MaxPending
                    /\ \E id \in Ids :
                         Install(add_pending_submission(c, file_path, body, id, "ok"))
               ELSE Install(c)

SubmitReport(doc, queue_if_offline, outcome) ==
    Submit("submit_report", "session_results.json", doc, queue_if_offline, outcome)

SubmitReportData(doc, queue_if_offline, outcome) ==
    Submit("submit_report_data", "", doc, queue_if_offline, outcome)

(* get_versions and get_tests (the general list); "reject" stands for any   *)
(* answer that is not a success document: the cached data is returned.      *)
Fetch(op, outcome) ==
    /\ Idle
    /\ Answer(outcome)
    /\ ev' = Ev(op, outcome, FALSE, NoDoc,
                outcome # "reject", is_online, outcome = "ok")
    /\ running' = running
    /\ UNCHANGED_threads
    /\ IF outcome = "ok"
       THEN LET c == _update_online_status(Fresh, TRUE) IN
            /\ Install(Complete(c, op))
            /\ cont' = IF c.stack = <<>> THEN "none" ELSE op
       ELSE IF outcome = "reject"
       THEN /\ Install(Fresh)
            /\ cont' = "none"
       ELSE /\ Install(_update_online_status(Fresh, FALSE))
            /\ cont' = "none"

GetVersions(outcome) == Fetch("get_versions", outcome)

GetTests(outcome) == Fetch("get_tests", outcome)

(* retry_pending_submissions *)
RetryPending ==
    /\ Idle
    /\ LET c == _process_pending_submissions(Fresh) IN
       /\ Install(c)
       /\ cont' = IF c.stack = <<>> THEN "none" ELSE "retry"
    /\ ev' = Ev("retry_pending_submissions", "none", FALSE, NoDoc,
                FALSE, is_online, is_online)
    /\ UNCHANGED <<running, faults, net>>
    /\ UNCHANGED_threads

(* a drain that lets submit_report_data queue what it could not send *)
RetryQueuesAgain == TRUE

(* queue_if_offline in the call the drain makes:                           *)
(* submit_report_data(submission.data, queue_if_offline=False)             *)
RetryQueueIfOffline == FALSE

(* submit_report_data after a request that raised: offline, and the report *)
(* queued when queue_if_offline is set                                      *)
RequestFailed(c, doc, queue_if_offline) ==
    LET c0 == _update_online_status(c, FALSE) IN
    IF queue_if_offline
    THEN add_pending_submission(c0, "", doc, CHOOSE id \in Ids : TRUE, "ok")
    ELSE c0

(* the answer to the request a running drain has on the wire *)
DrainRespond(outcome) ==
    /\ running
    /\ stack # <<>>
    /\ Answer(outcome)
    /\ LET sub == CurrentSubmission(Cur)
           c == IF outcome = "ok"
                THEN LET c0 == [Cur EXCEPT
                                  !.cyc.acc = @ \cup {sub.created_at},
                                  !.delivered = @ \cup {sub.created_at}]
                         c1 == _update_online_status(c0, TRUE)
                     IN IF Len(c1.stack) > Len(stack) THEN c1
                        ELSE RetrySucceeded(c1)
                ELSE IF outcome = "reject"
                THEN RetryFailed(Cur, "rejected")
                ELSE RetryFailed(RequestFailed(Cur, prepare_data_for_api(sub.data),
                                               RetryQueueIfOffline), "transport")
       IN /\ Install(Complete(c, cont))
          /\ cont' = IF c.stack = <<>> THEN "none" ELSE cont
          /\ ev' = Ev("retry_response", outcome, FALSE,
                      prepare_data_for_api(sub.data),
                      outcome # "reject", is_online, outcome = "ok")
    /\ running' = running
    /\ UNCHANGED_threads

(* clear_pending_submission *)
ClearPendingSubmission(id) ==
    /\ Idle
    /\ Install(remove_pending_submission(Fresh, id, "ok"))
    /\ ev' = Ev("clear_pending_submission", "none", FALSE, NoDoc,
                FALSE, is_online, is_online)
    /\ UNCHANGED <<running, cont, faults, net>>
    /\ UNCHANGED_threads

(* DataCache.clear *)
Clear ==
    /\ Idle
    /\ Install(clear(Fresh, "ok"))
    /\ ev' = Ev("clear", "none", FALSE, NoDoc, FALSE, is_online, is_online)
    /\ UNCHANGED <<running, cont, faults, net>>
    /\ UNCHANGED_threads

(* the process ends; what was not saved is gone *)
Exit ==
    /\ Idle
    /\ running' = FALSE
    /\ data' = DefaultData
    /\ dirty' = FALSE
    /\ is_online' = FALSE
    /\ cyc' = NoCycle
    /\ ev' = Ev("exit", "none", FALSE, NoDoc, FALSE, FALSE, FALSE)
    /\ callbacks' = <<>>
    /\ notified' = <<>>
    /\ UNCHANGED <<disk, stack, cont, clock, faults, net, delivered>>
    /\ UNCHANGED_threads

(* TestPanelClient.__init__ with DataCache.__init__ *)
Start ==
    /\ ~running
    /\ running' = TRUE
    /\ data' = _load(disk)
    /\ dirty' = FALSE
    /\ is_online' = FALSE
    /\ cyc' = NoCycle
    /\ ev' = Ev("start", "none", FALSE, NoDoc, FALSE, FALSE, FALSE)
    /\ callbacks' = <<>>
    /\ notified' = <<>>
    /\ UNCHANGED <<disk, stack, cont, clock, faults, net, delivered>>
    /\ UNCHANGED_threads

(* the network comes back for good *)
NetworkRestored ==
    /\ net = "flaky"
    /\ net' = "stable"
    /\ ev' = Ev("network_restored", "none", FALSE, NoDoc, FALSE, is_online, is_online)
    /\ UNCHANGED <<running, data, dirty, disk, is_online, stack, cont, clock,
                   faults, cyc, delivered, callbacks, notified>>
    /\ UNCHANGED_threads

----------------------------------------------------------------------------
(* The session of the tool and its upload (main.py), before anything has    *)
(* been tested or sent.                                                     *)

Vids == {"v1", "v2"}

(* the result set of a version: "" has only empty statuses and notes *)
Contents == {"", "a", "<b>a</b>", "b"}

NoHash == "none"

NoPayload == [v \in {} |-> ""]

NoRequest == [op |-> "none", thread |-> "none", versions |-> {}, offline |-> FALSE]

NewSession ==
    [results |-> [v \in Vids |-> ""], upload_hashes |-> [v \in Vids |-> NoHash]]

NoUpload ==
    [pc |-> "idle", dialog |-> FALSE, collected |-> {},
     hashes |-> [v \in Vids |-> NoHash], check |-> "none",
     answer |-> [v \in Vids |-> "none"], payload |-> NoPayload,
     pending |-> {}, result |-> "none",
     snapshot |-> [v \in Vids |-> ""], remembered |-> [v \in Vids |-> NoHash]]

(* no DataCache has loaded a document yet *)
NoCache == [keys |-> {}, op |-> "none", raised |-> "none"]

(* no upload file and no submission thread *)
NoSubmissions == [file |-> {}, file_exists |-> FALSE, threads |-> <<>>, signals |-> <<>>]

(* no results for the version yet, and no digest *)
NoHashing == [results_data |-> <<>>, attached_logs |-> <<>>,
              digest |-> [sha256 |-> [results |-> <<>>, logs |-> <<>>]],
              op |-> "none"]

(* the note before anything is typed *)
NoNote == [editor |-> <<>>, text |-> <<>>, hashed |-> <<>>, has_hash |-> FALSE,
           sent |-> <<>>, op |-> "none"]

(* the Controller before _load_settings: no polling thread, no stop event *)
NoPolling == [thread |-> "none", stop |-> FALSE]

NoTask == [id |-> 0, operation |-> "none"]

(* ApiWorker.__init__: no task, the thread not started, _stop not set; and *)
(* PanelIntegration.__init__: _operation_counter 0 (queued), no callback   *)
(* pending.  signals is the history of the signals the worker emitted, of  *)
(* which the first handled have reached their slot; invoked is the history *)
(* of the callbacks called.                                                 *)
NewWorker ==
    [tasks |-> <<>>, mutex |-> "free", caller |-> "idle", loop |-> "stopped",
     operation |-> "none", task |-> NoTask, queued |-> 0, log |-> <<>>,
     stop |-> FALSE, signals |-> <<>>, handled |-> 0,
     pending_callbacks |-> {}, invoked |-> <<>>]

----------------------------------------------------------------------------
(* The cache file the tool finds when it is first started: none, or the     *)
(* file an earlier run left, of this build or of an older one (another      *)
(* cache_version), with or without a pending entry.                         *)

EarlierEntry ==
    PendingSubmission("1f0c9a2e", "", [vers |-> Versions, notes |-> "a"], 1)

EarlierData(version, pending) ==
    [cache_version |-> version,
     versions |-> ServerVersions,
     tests |-> ServerTests,
     pending_submissions |-> pending,
     is_online |-> FALSE]

InitialFiles ==
    {MissingFile} \cup
    {DocFile(EarlierData(v, p)) :
        v \in {CACHE_VERSION - 1, CACHE_VERSION}, p \in {<<>>, <<EarlierEntry>>}}

Init ==
    /\ running = FALSE
    /\ disk \in InitialFiles
    /\ data = DefaultData
    /\ dirty = FALSE
    /\ is_online = FALSE
    /\ stack = <<>>
    /\ cont = "none"
    /\ clock = Len(FilePending(disk))
    /\ faults = 0
    /\ net = "flaky"
    /\ cyc = NoCycle
    /\ delivered = {}
    /\ ev = Ev("init", "none", FALSE, NoDoc, FALSE, FALSE, FALSE)
    /\ tpc = [t \in Threads |-> "idle"]
    /\ tloc = [t \in Threads |-> "none"]
    /\ session = NewSession
    /\ up = NoUpload
    /\ req = NoRequest
    /\ offline_mode = FALSE
    /\ wk = NewWorker
    /\ poll = NoPolling
    /\ callbacks = <<>>
    /\ notified = <<>>
    /\ note = NoNote
    /\ hashing = NoHashing
    /\ subs = NoSubmissions
    /\ cache = NoCache

Next ==
    \/ Start
    \/ Exit
    \/ \E d \in InputDocs, q \in BOOLEAN, o \in Answers : SubmitReport(d, q, o)
    \/ \E d \in InputDocs, q \in BOOLEAN, o \in Answers : SubmitReportData(d, q, o)
    \/ \E o \in Answers : GetVersions(o)
    \/ \E o \in Answers : GetTests(o)
    \/ RetryPending
    \/ \E o \in Answers : DrainRespond(o)
    \/ \E id \in Ids : ClearPendingSubmission(id)
    \/ Clear
    \/ NetworkRestored

Spec == Init /\ [][Next]_vars

----------------------------------------------------------------------------
(* Properties of the sequential client (Spec) *)

PendingKeys(pending) == {pending[i].created_at : i \in 1..Len(pending)}

IsSubmitStep(e) == e.op \in {"submit_report", "submit_report_data"}

(* C1: a submit_report or submit_report_data with queue_if_offline=True     *)
(* whose request fails on transport appends exactly one entry to the        *)
(* pending queue, and the payload of that entry is the whole document that  *)
(* was sent, with every version of the batch.                               *)
C1_TransportFailureQueuesWholeDocument ==
    [][(IsSubmitStep(ev') /\ ev'.outcome = "transport" /\ ev'.qio)
        => /\ Len(data'.pending_submissions) = Len(data.pending_submissions) + 1
           /\ SubSeq(data'.pending_submissions, 1, Len(data.pending_submissions))
                = data.pending_submissions
           /\ data'.pending_submissions[Len(data'.pending_submissions)].data
                = ev'.sent]_vars

(* C1 witness: a two-version report was queued behind an older entry *)
C1_Witness ==
    /\ ev.op = "submit_report"
    /\ ev.outcome = "transport"
    /\ ev.qio
    /\ Len(data.pending_submissions) = 2
    /\ data.pending_submissions[2].data.vers = Versions

(* C2: in one drain cycle every pending submission is sent to the server    *)
(* at most once.                                                            *)
C2_SentAtMostOncePerCycle ==
    \A k \in Keys : cyc.sent[k] <= 1

(* C3: when a drain cycle has ended, every entry whose retry was accepted   *)
(* is out of the queue, and every entry whose retry failed is in the queue  *)
(* with attempts one greater than before the cycle and last_error the       *)
(* error of the failed retry.                                               *)
C3_DrainOutcome ==
    cyc.state = "done" =>
        \A i \in 1..Len(cyc.start) :
            LET e == cyc.start[i]
                k == e.created_at
                pending == data.pending_submissions
            IN /\ k \in cyc.acc => k \notin PendingKeys(pending)
               /\ cyc.rej[k] # "none" =>
                    \E j \in 1..Len(pending) :
                        /\ pending[j].created_at = k
                        /\ pending[j].attempts = e.attempts + 1
                        /\ pending[j].last_error = cyc.rej[k]

(* the entries that are queued, in the memory of the running process or in *)
(* the cache file                                                           *)
QueuedKeys ==
    (IF running THEN PendingKeys(data.pending_submissions) ELSE {})
        \cup PendingKeys(FilePending(disk))

(* C4: an entry leaves the queue (is neither in memory nor in the file any  *)
(* more) only after the server has accepted a submission of it.             *)
C4_RemovedOnlyWhenDelivered ==
    [][\A k \in QueuedKeys : k \notin QueuedKeys' => k \in delivered']_vars

(* C5: after a load of a cache file with another cache_version the read     *)
(* cache is empty and the pending submissions of the file are in the queue. *)
C5_PendingSurviveSchemaReset ==
    (ev.op = "start" /\ disk.kind = "doc" /\ disk.doc.cache_version # CACHE_VERSION)
        => /\ data.versions = <<>>
           /\ data.tests = <<>>
           /\ data.pending_submissions = disk.doc.pending_submissions

(* C9: a status update starts a drain exactly when it changes the status    *)
(* from offline to online (and there is something to drain); the drain      *)
(* covers the queue as it is then and runs inside the triggering call;      *)
(* any other status update starts no drain and sends no retry.              *)
C9_DrainExactlyOnReconnect ==
    [][/\ ev'.upd =>
            ((Len(stack') > Len(stack))
                <=> (~ev'.was /\ ev'.now /\ data.pending_submissions # <<>>))
       /\ (ev'.upd /\ stack = <<>> /\ ~(~ev'.was /\ ev'.now))
            => (stack' = <<>> /\ cyc' = NoCycle)
       /\ (ev'.upd /\ stack = <<>> /\ Len(stack') > Len(stack))
            => /\ cyc'.state = "running"
               /\ cyc'.start = data.pending_submissions
               /\ cont' = ev'.op
       /\ stack' # <<>> => cont' # "none"]_vars

(* C9 witness: a versions fetch brought the client online and its drain is  *)
(* running                                                                  *)
C9_Witness ==
    /\ ev.op = "get_versions"
    /\ ev.upd /\ ~ev.was /\ ev.now
    /\ stack # <<>>
    /\ cont = "get_versions"

(* C12: when a submission has been accepted by the server and the call has  *)
(* returned, no pending entry carries the payload that was just accepted.   *)
C12_AcceptedBatchNotQueued ==
    (IsSubmitStep(ev) /\ ev.outcome = "ok" /\ cont = "none")
        => \A i \in 1..Len(data.pending_submissions) :
              data.pending_submissions[i].data # ev.sent

(* C23: the entries of the pending queue have pairwise distinct ids. *)
C23_PendingIdsDistinct ==
    \A i, j \in 1..Len(data.pending_submissions) :
        i # j => data.pending_submissions[i].id # data.pending_submissions[j].id

----------------------------------------------------------------------------
(* The queue mutations of DataCache step by step, as the threads of the     *)
(* tool run them: the thread of an asynchronous submit_session, the         *)
(* ApiWorker thread and the interactive thread. A mutation changes _data    *)
(* and then runs save: the dirty check, open(path, 'w') (which truncates    *)
(* the file, or raises), json.dump, and the reset of _dirty. The process    *)
(* may crash between any two steps.                                         *)

Mutations ==
    {"add_pending_submission", "remove_pending_submission",
     "update_pending_submission"}

(* the ApiWorker runs fetches, whose drain removes and updates entries; the *)
(* other two threads also submit reports, which adds entries                *)
CanAdd(t) == t # "worker"

(* the threads that run mutations here, and the report they queue *)
CacheThreads == {"submit", "worker"}

CacheDoc == CHOOSE d \in InputDocs : d.vers = {1}

Goto(t, pc) == tpc' = [tpc EXCEPT ![t] = pc]

Step(op) == ev' = Ev(op, "step", FALSE, NoDoc, FALSE, FALSE, FALSE)

Returned(op) == ev' = Ev(op, "returned", FALSE, NoDoc, FALSE, FALSE, FALSE)

(* remove and update return False at once when no entry has the id *)
NotFound(op) == ev' = Ev(op, "not_found", FALSE, NoDoc, FALSE, FALSE, FALSE)

UNCHANGED_client ==
    UNCHANGED <<is_online, stack, cont, faults, net, cyc, delivered,
                session, up, req, offline_mode, wk, poll, callbacks, notified,
                note, hashing, subs, cache>>

BeginAdd(t, doc, id) ==
    /\ running /\ tpc[t] = "idle" /\ CanAdd(t)
    /\ Len(data.pending_submissions) < MaxPending
    /\ clock + 1 \in Keys
    /\ LET c == Appended(Cur, "", prepare_data_for_api(doc), id) IN
       /\ data' = c.data
       /\ dirty' = c.dirty
       /\ clock' = c.clock
    /\ Goto(t, "save")
    /\ tloc' = [tloc EXCEPT ![t] = "add_pending_submission"]
    /\ Step("add_pending_submission")
    /\ UNCHANGED <<running, disk>>
    /\ UNCHANGED_client

BeginRemove(t, id) ==
    /\ running /\ tpc[t] = "idle"
    /\ IF FirstWithId(data.pending_submissions, id) = 0
       THEN /\ NotFound("remove_pending_submission")
            /\ UNCHANGED <<data, dirty, tpc, tloc>>
       ELSE /\ data' = Removed(Cur, id).data
            /\ dirty' = TRUE
            /\ Goto(t, "save")
            /\ tloc' = [tloc EXCEPT ![t] = "remove_pending_submission"]
            /\ Step("remove_pending_submission")
    /\ UNCHANGED <<running, disk, clock>>
    /\ UNCHANGED_client

BeginUpdate(t, id) ==
    /\ running /\ tpc[t] = "idle"
    /\ LET i == FirstWithId(data.pending_submissions, id) IN
       IF i = 0
       THEN /\ NotFound("update_pending_submission")
            /\ UNCHANGED <<data, dirty, tpc, tloc>>
       ELSE /\ data.pending_submissions[i].attempts < MaxFaults
            /\ data' = Updated(Cur, id, data.pending_submissions[i].attempts + 1,
                               "transport").data
            /\ dirty' = TRUE
            /\ Goto(t, "save")
            /\ tloc' = [tloc EXCEPT ![t] = "update_pending_submission"]
            /\ Step("update_pending_submission")
    /\ UNCHANGED <<running, disk, clock>>
    /\ UNCHANGED_client

(* a save that writes whether or not anything changed *)
always_written(flag) == TRUE

(* save: if not self._dirty: return True *)
needs_write(flag) == flag

SaveEnter(t) ==
    /\ running /\ tpc[t] = "save"
    /\ IF needs_write(dirty)
       THEN Goto(t, "open") /\ Step("save") /\ UNCHANGED tloc
       ELSE /\ Goto(t, "idle")
            /\ Returned(tloc[t])
            /\ tloc' = [tloc EXCEPT ![t] = "none"]
    /\ UNCHANGED <<running, data, dirty, disk, clock>>
    /\ UNCHANGED_client

(* save: open(self.cache_path, 'w'); when it raises, save returns False and *)
(* the mutation returns all the same                                        *)
SaveOpen(t, opens) ==
    /\ running /\ tpc[t] = "open"
    /\ IF opens
       THEN /\ disk' = TruncatedFile
            /\ Goto(t, "dump")
            /\ Step("save")
            /\ UNCHANGED tloc
       ELSE /\ Goto(t, "idle")
            /\ Returned(tloc[t])
            /\ tloc' = [tloc EXCEPT ![t] = "none"]
            /\ UNCHANGED disk
    /\ UNCHANGED <<running, data, dirty, clock>>
    /\ UNCHANGED_client

(* save: json.dump(self._data, f) and the close of the file *)
SaveDump(t) ==
    /\ running /\ tpc[t] = "dump"
    /\ disk' = DocFile(data)
    /\ Goto(t, "clear")
    /\ Step("save")
    /\ UNCHANGED <<running, data, dirty, clock, tloc>>
    /\ UNCHANGED_client

(* save: self._dirty = False; return True; and the mutation returns *)
SaveClear(t) ==
    /\ running /\ tpc[t] = "clear"
    /\ dirty' = FALSE
    /\ Goto(t, "idle")
    /\ Returned(tloc[t])
    /\ tloc' = [tloc EXCEPT ![t] = "none"]
    /\ UNCHANGED <<running, data, disk, clock>>
    /\ UNCHANGED_client

(* the process is killed, or the machine loses power *)
Crash ==
    /\ running
    /\ running' = FALSE
    /\ data' = DefaultData
    /\ dirty' = FALSE
    /\ tpc' = [t \in Threads |-> "idle"]
    /\ tloc' = [t \in Threads |-> "none"]
    /\ ev' = Ev("crash", IF \E t \in Threads : tpc[t] \in {"save", "open", "dump", "clear"}
                         THEN "in_save" ELSE "idle",
                FALSE, NoDoc, FALSE, FALSE, FALSE)
    /\ UNCHANGED <<disk, clock>>
    /\ UNCHANGED_client

NextCache ==
    \/ Start
    \/ Crash
    \/ \E t \in CacheThreads, id \in Ids : BeginAdd(t, CacheDoc, id)
    \/ \E t \in CacheThreads, id \in Ids : BeginRemove(t, id)
    \/ \E t \in CacheThreads, id \in Ids : BeginUpdate(t, id)
    \/ \E t \in CacheThreads : SaveEnter(t)
    \/ \E t \in CacheThreads, opens \in BOOLEAN : SaveOpen(t, opens)
    \/ \E t \in CacheThreads : SaveDump(t)
    \/ \E t \in CacheThreads : SaveClear(t)

SpecCache == Init /\ [][NextCache]_vars

(* C6: when add_pending_submission, remove_pending_submission or            *)
(* update_pending_submission returns after changing the list, the pending   *)
(* list in the cache file equals the pending list in memory.                *)
C6_FlushedOnReturn ==
    (ev.op \in Mutations /\ ev.outcome = "returned")
        => /\ disk.kind = "doc"
           /\ disk.doc.pending_submissions = data.pending_submissions

(* C7: after a crash during save the cache file holds a complete record,    *)
(* the previous one or the new one, never an empty or partial document.     *)
C7_SaveAtomicUnderCrash ==
    (ev.op = "crash" /\ ev.outcome = "in_save") => disk.kind # "truncated"

(* C8: at most one thread is inside a queue mutation (the change of the     *)
(* list together with its flush) at a time.                                 *)
C8_MutationsDoNotOverlap ==
    Cardinality({t \in Threads : tpc[t] # "idle"}) <= 1

----------------------------------------------------------------------------
(* The client in use: the tool is started when it is not running, and it   *)
(* keeps fetching the version list and the test list (the panel refreshes  *)
(* them), which the server answers whenever the network lets it. A request *)
(* of a drain is answered or times out (_make_request passes a timeout),   *)
(* so no drain lasts forever. Retrying the queue by hand stays possible    *)
(* and is never forced.                                                    *)
LiveDoc == CHOOSE d \in InputDocs : d.vers = {1}

LiveNext ==
    \/ Start
    \/ \E o \in Answers : SubmitReport(LiveDoc, TRUE, o)
    \/ \E o \in Answers : GetVersions(o)
    \/ \E o \in Answers : GetTests(o)
    \/ RetryPending
    \/ \E o \in Answers : DrainRespond(o)
    \/ NetworkRestored

LiveSpec ==
    /\ Init
    /\ [][LiveNext]_vars
    /\ WF_vars(Start)
    /\ []<>(stack = <<>>)
    /\ WF_vars(GetVersions("ok"))
    /\ WF_vars(GetTests("ok"))

(* C10: once the network is restored and stays up, with the server          *)
(* accepting, the queue eventually becomes empty.                           *)
C10_QueueEventuallyEmpty ==
    (net = "stable") ~> (QueuedKeys = {})

----------------------------------------------------------------------------
(* The network operations of the client that do not go through the cache:   *)
(* check_hashes, get_retest_queue and check_flags. Each sends one request   *)
(* and turns every failure into an unsuccessful result; none of them calls  *)
(* _update_online_status.                                                   *)

Probe(op, outcome) ==
    /\ Idle
    /\ Answer(outcome)
    /\ ev' = Ev(op, outcome, FALSE, NoDoc, FALSE, is_online, is_online)
    /\ UNCHANGED <<running, data, dirty, disk, is_online, stack, cont, clock,
                   cyc, delivered, callbacks, notified>>
    /\ UNCHANGED_threads

CheckHashes(outcome) == Probe("check_hashes", outcome)

GetRetestQueue(outcome) == Probe("get_retest_queue", outcome)

CheckFlags(outcome) == Probe("check_flags", outcome)

NetworkOperations ==
    {"submit_report", "submit_report_data", "check_hashes", "get_tests",
     "get_versions", "get_retest_queue", "check_flags"}

NextOps ==
    \/ Start
    \/ \E o \in Answers : SubmitReport(LiveDoc, TRUE, o)
    \/ \E o \in Answers : GetVersions(o)
    \/ \E o \in Answers : GetTests(o)
    \/ \E o \in Answers : DrainRespond(o)
    \/ \E o \in Answers : CheckHashes(o)
    \/ \E o \in Answers : GetRetestQueue(o)
    \/ \E o \in Answers : CheckFlags(o)

SpecOps == Init /\ [][NextOps]_vars

(* C17: after a timeout or connection failure of any network operation the  *)
(* client is offline.                                                       *)
C17_TransportFailureGoesOffline ==
    (ev.op \in NetworkOperations /\ ev.outcome = "transport") => ~is_online


----------------------------------------------------------------------------
(* The upload of the session (main.py): VersionPage.upload_to_panel,        *)
(* PanelIntegration.submit_session with its thread, and                     *)
(* Controller._on_submission_complete.  A result set is one string: ""     *)
(* stands for a version whose tests all have empty status and empty notes.  *)
(* One upload is in flight at a time.                                       *)

(* main.py clean_notes: markup is removed from the notes *)
clean_notes(c) == IF c = "<b>a</b>" THEN "a" ELSE c

(* main.py compute_version_hash: the digest of the results with cleaned notes *)
compute_version_hash(c) ==
    CASE clean_notes(c) = "" -> "sha256()"
      [] clean_notes(c) = "a" -> "sha256(a)"
      [] OTHER -> "sha256(b)"

Hashes == {compute_version_hash(c) : c \in Contents}

(* the actions the server answers for a version; "absent": not in the results *)
Actions == {"skip", "update", "create", "absent"}

NoAnswer == [v \in Vids |-> "none"]

(* what the hash check exchange can come to (api_client.py check_hashes) *)
HashCheckOutcomes == {"ok", "transport", "http_error", "invalid_json", "not_success"}

(* HashCheckResult.success *)
HashCheckSuccess(check) == check = "ok"

HasContentAlways(c) == TRUE

(* upload_to_panel: a test with a status or with notes *)
HasContent(c) == c # ""

valid_results(results) == {v \in Vids : HasContent(results[v])}

version_hashes(results, valid) ==
    [v \in Vids |-> IF v \in valid THEN compute_version_hash(results[v]) ELSE NoHash]

locally_changed_never(valid, hashes, upload_hashes) == {}

locally_changed(valid, hashes, upload_hashes) ==
    {v \in valid : hashes[v] # upload_hashes[v]}

skipped_versions_forgotten(valid, answer) == {}

skipped_versions(valid, answer) == {v \in valid : answer[v] = "skip"}

changed_versions_answered(valid, answer) ==
    {v \in valid : answer[v] \in {"update", "create"}}

(* a version the server does not mention is uploaded like any other *)
changed_versions(valid, answer) == {v \in valid : answer[v] # "skip"}

filtered_results(results, changed) == [v \in changed |-> results[v]]

UNCHANGED_api ==
    UNCHANGED <<running, data, dirty, disk, is_online, stack, cont, clock,
                faults, net, cyc, delivered, ev, tpc, tloc,
                poll, callbacks, notified, note, hashing, subs, cache>>

(* Controller.load_session: the session file found at the start *)
LoadSession(results, upload_hashes) ==
    /\ session = NewSession
    /\ up = NoUpload
    /\ session' = [results |-> results, upload_hashes |-> upload_hashes]
    /\ UNCHANGED <<up, req, offline_mode, wk>>
    /\ UNCHANGED_api

(* TestPage.finish: the results of a version are replaced, notes cleaned;   *)
(* an empty report is discarded.  The modal progress dialog keeps the       *)
(* window from being used while it is shown.                                *)
Edit(v, c) ==
    /\ ~up.dialog
    /\ HasContent(clean_notes(c))
    /\ session' = [session EXCEPT !.results[v] = clean_notes(c)]
    /\ UNCHANGED <<up, req, offline_mode, wk>>
    /\ UNCHANGED_api

(* VersionPage.upload_to_panel with the answer of the hash check *)
UploadToPanel(check, answer) ==
    /\ up.pc = "idle"
    /\ ~up.dialog
    /\ HashCheckSuccess(check) => ~offline_mode
    /\ LET results == session.results
           valid == valid_results(results)
           hashes == version_hashes(results, valid)
           local == locally_changed(valid, hashes, session.upload_hashes)
           changed == IF HashCheckSuccess(check)
                      THEN changed_versions(valid, answer) ELSE local
           skipped == IF HashCheckSuccess(check)
                      THEN skipped_versions(valid, answer) ELSE {}
           run == [NoUpload EXCEPT !.collected = valid, !.hashes = hashes,
                                   !.check = check, !.answer = answer,
                                   !.snapshot = results,
                                   !.remembered = session.upload_hashes]
       IN /\ valid # {}
          /\ req' = IF offline_mode THEN req
                    ELSE [op |-> "check_hashes", thread |-> "ui",
                          versions |-> valid, offline |-> offline_mode]
          /\ session' = [session EXCEPT !.upload_hashes =
                            [v \in Vids |-> IF v \in skipped THEN hashes[v]
                                            ELSE session.upload_hashes[v]]]
          /\ up' = IF changed = {} THEN run
                   ELSE [run EXCEPT !.pc = "sending", !.dialog = TRUE,
                                    !.payload = filtered_results(results, changed),
                                    !.pending = changed]
    /\ UNCHANGED <<offline_mode, wk>>
    /\ UNCHANGED_api

(* QDialog.reject: the Escape key closes the progress dialog *)
DismissDialog ==
    /\ up.dialog
    /\ up' = [up EXCEPT !.dialog = FALSE]
    /\ UNCHANGED <<session, req, offline_mode, wk>>
    /\ UNCHANGED_api

(* PanelIntegration._async_submit on its own thread *)
SubmitThread(outcome) ==
    /\ up.pc = "sending"
    /\ req' = [op |-> "submit_report", thread |-> "submit",
               versions |-> DOMAIN up.payload, offline |-> offline_mode]
    /\ up' = [up EXCEPT !.pc = "signalled",
                        !.result = CASE outcome = "ok" -> "success"
                                     [] outcome = "transport" -> "queued"
                                     [] OTHER -> "failed"]
    /\ UNCHANGED <<session, offline_mode, wk>>
    /\ UNCHANGED_api

(* Controller._on_submission_complete, the slot of submission_complete *)
OnSubmissionComplete ==
    /\ up.pc = "signalled"
    /\ LET success == up.result \in {"success", "queued"}
       IN /\ session' = IF success
                        THEN [session EXCEPT !.upload_hashes =
                                 [v \in Vids |->
                                     IF v \in up.pending
                                     THEN compute_version_hash(session.results[v])
                                     ELSE session.upload_hashes[v]]]
                        ELSE session
          /\ up' = [up EXCEPT !.pc = "idle", !.dialog = FALSE, !.pending = {}]
    /\ UNCHANGED <<req, offline_mode, wk>>
    /\ UNCHANGED_api

NextUpload ==
    \/ \E results \in [Vids -> Contents], upload_hashes \in [Vids -> Hashes \cup {NoHash}] :
          LoadSession(results, upload_hashes)
    \/ \E v \in Vids, c \in Contents : Edit(v, c)
    \/ \E answer \in [Vids -> Actions] : UploadToPanel("ok", answer)
    \/ \E check \in HashCheckOutcomes \ {"ok"} : UploadToPanel(check, NoAnswer)
    \/ DismissDialog
    \/ \E o \in Answers : SubmitThread(o)
    \/ OnSubmissionComplete

(* a first installation: no cache file of an earlier run *)
InitUpload == Init /\ disk = MissingFile

SpecUpload == InitUpload /\ [][NextUpload]_vars

(* C11: when an upload has been reported successful, the remembered digest  *)
(* of every uploaded version is the digest of the content that was sent.    *)
C11_RememberedDigestIsOfSentContent ==
    (up.pc = "idle" /\ up.result = "success")
        => \A v \in DOMAIN up.payload :
              session.upload_hashes[v] = compute_version_hash(up.payload[v])

(* C13: after a successful hash check a version the server marks skip is in *)
(* no upload request and its remembered digest is the digest just computed; *)
(* the payload holds exactly the collected versions that are not skipped    *)
(* (update, create, and those the server leaves out); when every version is *)
(* skipped no submit request is made.                                       *)
C13_SkipIsRememberedNotUploaded ==
    HashCheckSuccess(up.check) =>
        /\ \A v \in up.collected :
              up.answer[v] = "skip" =>
                 /\ v \notin DOMAIN up.payload
                 /\ (req.op = "submit_report" => v \notin req.versions)
                 /\ session.upload_hashes[v] = up.hashes[v]
        /\ DOMAIN up.payload =
              {v \in up.collected : up.answer[v] \in {"update", "create", "absent"}}
        /\ (\A v \in up.collected : up.answer[v] = "skip")
              => req.op = "check_hashes" /\ up.pc = "idle" /\ up.result = "none"

C13_Witness ==
    /\ HashCheckSuccess(up.check)
    /\ req.op = "submit_report"
    /\ up.result = "success"
    /\ \E v \in up.collected :
          /\ up.answer[v] = "skip"
          /\ up.remembered[v] # up.hashes[v]
          /\ session.upload_hashes[v] = up.hashes[v]

(* C14: after a successful hash check every collected version that the      *)
(* server's results do not mention is part of the upload.                   *)
C14_AbsentIsUploaded ==
    HashCheckSuccess(up.check) =>
        \A v \in up.collected :
            up.answer[v] = "absent" =>
               /\ v \in DOMAIN up.payload
               /\ (up.pc = "idle" => up.result # "none")
               /\ (req.op = "submit_report" => v \in req.versions)

C14_Witness ==
    /\ HashCheckSuccess(up.check)
    /\ req.op = "submit_report"
    /\ \E v \in req.versions : up.answer[v] = "absent" /\ up.remembered[v] = up.hashes[v]

C16_EmptyVersionNeverSent ==
    \A v \in Vids :
        up.snapshot[v] = "" =>
           /\ (req.op \in {"check_hashes", "submit_report"} => v \notin req.versions)
           /\ v \notin DOMAIN up.payload
           /\ v \notin up.collected

C16_Witness ==
    /\ up.result = "queued"
    /\ req.op = "submit_report"
    /\ \E v \in Vids : up.snapshot[v] = "" /\ v \notin req.versions
----------------------------------------------------------------------------
(* PanelIntegration and its ApiWorker (panel_integration.py).  The methods  *)
(* are called on the interactive thread "ui"; the worker loop runs on the   *)
(* thread "worker", submit_session starts the thread "submit", and the flag *)
(* polling loop of main.py is the thread "poll".  A request is recorded     *)
(* with the thread that runs it and the offline mode at that moment.        *)

AsyncOperations == {"get_tests", "get_versions"}

Request(op, thread) ==
    [op |-> op, thread |-> thread, versions |-> {}, offline |-> offline_mode]

UiIdle == wk.caller = "idle"

(* PanelIntegration.set_offline_mode *)
SetOfflineMode(offline) ==
    /\ UiIdle
    /\ offline_mode # offline
    /\ offline_mode' = offline
    /\ UNCHANGED <<session, up, req, wk>>
    /\ UNCHANGED_api

(* a method of PanelIntegration that calls the client on the calling thread *)
Synchronous(op, thread, checks_offline) ==
    /\ UiIdle
    /\ checks_offline => ~offline_mode
    /\ req' = Request(op, thread)
    /\ UNCHANGED <<session, up, offline_mode, wk>>
    /\ UNCHANGED_api

(* PanelIntegration.get_tests *)
PanelGetTests == Synchronous("get_tests", "ui", FALSE)

(* PanelIntegration.get_versions *)
PanelGetVersions == Synchronous("get_versions", "ui", FALSE)

(* PanelIntegration.retry_pending_submissions, the Retry button *)
PanelRetryPending == Synchronous("retry_pending_submissions", "ui", FALSE)

(* PanelIntegration.submit_session with the thread it starts *)
PanelSubmitSession == Synchronous("submit_report", "submit", FALSE)

(* PanelIntegration.check_hashes, called by upload_to_panel *)
PanelCheckHashes == Synchronous("check_hashes", "ui", TRUE)

(* PanelIntegration._check_for_retests, on the QTimer of the main thread *)
CheckForRetests == Synchronous("get_retest_queue", "ui", TRUE)

(* PanelIntegration.check_flags_lightweight, in the flag polling loop *)
CheckFlagsLightweight == Synchronous("check_flags", "poll", TRUE)

(* get_tests_async, get_versions_async: into ApiWorker.queue_task, which    *)
(* first takes the mutex                                                    *)
(* _get_operation_id: the counter part of the next operation id *)
_get_operation_id(counter) == counter + 1

(* with callback set the caller passed a callback, which is registered     *)
(* under the operation id before the task is queued                        *)
QueueTaskLock(operation, callback) ==
    /\ UiIdle
    /\ ~offline_mode
    /\ wk.queued < MaxTasks
    /\ wk.mutex = "free"
    /\ wk' = [wk EXCEPT !.mutex = "ui", !.caller = "locked", !.operation = operation,
                        !.pending_callbacks =
                            IF callback THEN @ \cup {_get_operation_id(wk.queued)}
                            ELSE @]
    /\ UNCHANGED <<session, up, req, offline_mode>>
    /\ UNCHANGED_api

(* queue_task: append, wakeAll, unlock *)
QueueTaskAppend ==
    /\ wk.caller = "locked"
    /\ wk' = [wk EXCEPT !.tasks = Append(@, [id |-> _get_operation_id(wk.queued),
                                             operation |-> wk.operation]),
                        !.queued = @ + 1, !.mutex = "free",
                        !.caller = "appended", !.operation = "none"]
    /\ UNCHANGED <<session, up, req, offline_mode>>
    /\ UNCHANGED_api

(* queue_task: start the thread if it is not running *)
QueueTaskStart ==
    /\ wk.caller = "appended"
    /\ wk' = [wk EXCEPT !.caller = "idle",
                        !.loop = IF @ = "stopped" THEN "top" ELSE @]
    /\ UNCHANGED <<session, up, req, offline_mode>>
    /\ UNCHANGED_api

(* ApiWorker.run: lock the mutex at the top of the loop *)
LoopLock ==
    /\ wk.loop = "top"
    /\ wk.mutex = "free"
    /\ wk' = [wk EXCEPT !.mutex = "worker", !.loop = "locked"]
    /\ UNCHANGED <<session, up, req, offline_mode>>
    /\ UNCHANGED_api

(* run: no task, wait on the condition, which releases the mutex *)
LoopWait ==
    /\ wk.loop = "locked"
    /\ wk.tasks = <<>>
    /\ ~wk.stop
    /\ wk' = [wk EXCEPT !.mutex = "free", !.loop = "waiting"]
    /\ UNCHANGED <<session, up, req, offline_mode>>
    /\ UNCHANGED_api

(* run: woken, the wait takes the mutex again *)
LoopWake ==
    /\ wk.loop = "waiting"
    /\ wk.tasks # <<>> \/ wk.stop
    /\ wk.mutex = "free"
    /\ wk' = [wk EXCEPT !.mutex = "worker", !.loop = "locked"]
    /\ UNCHANGED <<session, up, req, offline_mode>>
    /\ UNCHANGED_api

pop_last(tasks) == Len(tasks)

(* run: self._task_queue.pop(0) *)
pop_index(tasks) == 1

(* run: take a task and unlock *)
LoopPop ==
    /\ wk.loop = "locked"
    /\ wk.tasks # <<>>
    /\ ~wk.stop
    /\ wk' = [wk EXCEPT !.task = wk.tasks[pop_index(wk.tasks)],
                        !.tasks = RemoveAt(@, pop_index(wk.tasks)),
                        !.mutex = "free", !.loop = "process"]
    /\ UNCHANGED <<session, up, req, offline_mode>>
    /\ UNCHANGED_api

(* what the call of the client does inside _process_task *)
TaskOutcomes == {"returned", "raised"}

(* _process_task: the signal of the operation after the call returned, or  *)
(* error_occurred from the except clause when it raised                    *)
emitted(task, outcome) ==
    [signal |-> IF outcome = "returned" THEN task.operation ELSE "error_occurred",
     operation_id |-> task.id]

(* run: _process_task, outside the mutex *)
ProcessTask(outcome) ==
    /\ wk.loop = "process"
    /\ req' = Request(wk.task.operation, "worker")
    /\ wk' = [wk EXCEPT !.log = Append(@, wk.task.id), !.task = NoTask,
                        !.loop = "top",
                        !.signals = Append(@, emitted(wk.task, outcome))]
    /\ UNCHANGED <<session, up, offline_mode>>
    /\ UNCHANGED_api

(* a slot that looks the callback up and leaves it registered *)
get_callback(pending_callbacks, operation_id) == pending_callbacks

(* self._pending_callbacks.pop(operation_id, None): what stays registered *)
pop_callback(pending_callbacks, operation_id) == pending_callbacks \ {operation_id}

(* the event loop of the interactive thread delivers the next signal to    *)
(* its slot (_on_tests_result, ..., _on_worker_error): the callback of the *)
(* operation id is taken out of _pending_callbacks and called              *)
DeliverSignal ==
    /\ UiIdle
    /\ wk.handled < Len(wk.signals)
    /\ LET operation_id == wk.signals[wk.handled + 1].operation_id IN
       wk' = [wk EXCEPT !.handled = @ + 1,
                        !.pending_callbacks = pop_callback(@, operation_id),
                        !.invoked = IF operation_id \in wk.pending_callbacks
                                    THEN Append(@, operation_id) ELSE @]
    /\ UNCHANGED <<session, up, req, offline_mode>>
    /\ UNCHANGED_api

(* run: if self._stop: unlock and break, whatever the queue holds *)
LoopBreak ==
    /\ wk.loop = "locked"
    /\ wk.stop
    /\ wk' = [wk EXCEPT !.mutex = "free", !.loop = "finished"]
    /\ UNCHANGED <<session, up, req, offline_mode>>
    /\ UNCHANGED_api

(* _stop_worker into ApiWorker.stop: lock, _stop = True, wakeAll, unlock;  *)
(* the caller then blocks in wait()                                        *)
StopLock ==
    /\ UiIdle
    /\ wk.loop # "stopped"
    /\ wk.mutex = "free"
    /\ wk' = [wk EXCEPT !.stop = TRUE, !.caller = "stopping"]
    /\ UNCHANGED <<session, up, req, offline_mode>>
    /\ UNCHANGED_api

(* stop: wait() returns when run has returned; _stop_worker drops the      *)
(* worker, and the next _ensure_worker makes a new one, with no task       *)
StopJoin ==
    /\ wk.caller = "stopping"
    /\ wk.loop = "finished"
    /\ wk' = [wk EXCEPT !.tasks = <<>>, !.stop = FALSE, !.loop = "stopped",
                        !.caller = "idle"]
    /\ UNCHANGED <<session, up, req, offline_mode>>
    /\ UNCHANGED_api

NextPanel ==
    \/ \E offline \in BOOLEAN : SetOfflineMode(offline)
    \/ PanelGetTests
    \/ PanelGetVersions
    \/ PanelRetryPending
    \/ PanelSubmitSession
    \/ PanelCheckHashes
    \/ CheckForRetests
    \/ CheckFlagsLightweight
    \/ \E operation \in AsyncOperations : QueueTaskLock(operation, FALSE)
    \/ QueueTaskAppend
    \/ QueueTaskStart
    \/ LoopLock
    \/ LoopWait
    \/ LoopWake
    \/ LoopPop
    \/ ProcessTask("returned")

SpecPanel == InitUpload /\ [][NextPanel]_vars

(* C18: no network request is made on the interactive thread. *)
C18_NoRequestOnUiThread == req.thread # "ui"

(* C19: the worker processes the tasks one at a time, in the order of the   *)
(* queue_task calls.                                                        *)
C19_TasksProcessedInCallOrder ==
    /\ \A i \in 1..Len(wk.log) : wk.log[i] = i
    /\ wk.task # NoTask => wk.task.id = Len(wk.log) + 1
    /\ \A i \in 1..Len(wk.tasks) :
          wk.tasks[i].id = Len(wk.log) + i + (IF wk.task # NoTask THEN 1 ELSE 0)

C19_Witness ==
    /\ Len(wk.log) >= 1
    /\ wk.task # NoTask
    /\ wk.caller = "locked"

(* C20: while offline mode is enabled no request is issued and no task is   *)
(* added to the worker queue.                                               *)
C20_OfflineModeBlocksRequests ==
    /\ ~req.offline
    /\ offline_mode => wk.caller = "idle"
----------------------------------------------------------------------------
(* The flag polling thread of the Controller (main.py): started by          *)
(* _load_settings, which __init__ calls once, when the panel is configured. *)

UNCHANGED_store ==
    UNCHANGED <<running, data, dirty, disk, is_online, stack, cont, clock,
                faults, net, cyc, delivered, ev, tpc, tloc, callbacks, notified,
                note, hashing, subs, cache>>

(* Controller._load_settings with _start_flag_polling *)
LoadSettings ==
    /\ poll.thread = "none"
    /\ poll' = [thread |-> "top", stop |-> FALSE]
    /\ UNCHANGED <<session, up, req, offline_mode, wk>>
    /\ UNCHANGED_store

(* Controller._stop_flag_polling: the stop event is set *)
StopFlagPolling ==
    /\ poll.thread # "none"
    /\ ~poll.stop
    /\ poll' = [poll EXCEPT !.stop = TRUE]
    /\ UNCHANGED <<session, up, req, offline_mode, wk>>
    /\ UNCHANGED_store

(* _flag_polling_loop: while not self._flag_polling_stop.is_set() *)
PollTest ==
    /\ poll.thread = "top"
    /\ poll' = [poll EXCEPT !.thread = IF poll.stop THEN "ended" ELSE "check"]
    /\ UNCHANGED <<session, up, req, offline_mode, wk>>
    /\ UNCHANGED_store

(* _flag_polling_loop: panel.check_flags_lightweight(), which returns at    *)
(* once in offline mode                                                     *)
PollCheck ==
    /\ poll.thread = "check"
    /\ poll' = [poll EXCEPT !.thread = "wait"]
    /\ req' = IF offline_mode THEN req ELSE Request("check_flags", "poll")
    /\ UNCHANGED <<session, up, offline_mode, wk>>
    /\ UNCHANGED_store

(* _flag_polling_loop: self._flag_polling_stop.wait(poll_interval) returns, *)
(* the interval over or the event set                                       *)
PollWait ==
    /\ poll.thread = "wait"
    /\ poll' = [poll EXCEPT !.thread = "top"]
    /\ UNCHANGED <<session, up, req, offline_mode, wk>>
    /\ UNCHANGED_store

PollStep == PollTest \/ PollCheck \/ PollWait

Configured == poll.thread # "none"

NextPoll ==
    \/ LoadSettings
    \/ StopFlagPolling
    \/ PollTest
    \/ PollCheck
    \/ PollWait
    \/ Configured /\ SetOfflineMode(TRUE)
    \/ Configured /\ PanelGetTests
    \/ Configured /\ PanelSubmitSession
    \/ Configured /\ CheckForRetests
    \/ Configured /\ \E operation \in AsyncOperations : QueueTaskLock(operation, FALSE)
    \/ QueueTaskAppend
    \/ QueueTaskStart
    \/ LoopLock
    \/ LoopWait
    \/ LoopWake
    \/ LoopPop
    \/ ProcessTask("returned")

(* the threads are scheduled: the polling thread takes its next step *)
SpecPoll == InitUpload /\ [][NextPoll]_vars /\ WF_vars(PollStep)

(* C21: the polling loop is started at most once, and it ends once the stop *)
(* event has been set or the panel has entered offline mode.                *)
C21_PollingLoopEnds ==
    /\ [][poll.thread \in {"none", "ended"} => poll'.thread \in {"none", "top", "ended"}]_vars
    /\ [][poll.thread = "ended" => poll'.thread = "ended"]_vars
    /\ (poll.thread # "none" /\ (poll.stop \/ offline_mode)) ~> (poll.thread = "ended")
----------------------------------------------------------------------------
(* The online callbacks of TestPanelClient: a callback is a name, the one   *)
(* named "raising" raises when it is called.                                *)

OnlineCallbacks == {"raising", "plain"}

(* TestPanelClient.add_online_callback *)
AddOnlineCallback(callback) ==
    /\ Idle
    /\ Len(callbacks) < MaxCallbacks
    /\ callbacks' = Append(callbacks, callback)
    /\ ev' = Ev("add_online_callback", "none", FALSE, NoDoc, FALSE, is_online, is_online)
    /\ UNCHANGED <<running, data, dirty, disk, is_online, stack, cont, clock,
                   faults, net, cyc, delivered, notified>>
    /\ UNCHANGED_threads

(* TestPanelClient.remove_online_callback: list.remove, the first match *)
RemoveOnlineCallback(callback) ==
    /\ Idle
    /\ \E i \in 1..Len(callbacks) :
          /\ callbacks[i] = callback
          /\ \A j \in 1..(i - 1) : callbacks[j] # callback
          /\ callbacks' = RemoveAt(callbacks, i)
    /\ ev' = Ev("remove_online_callback", "none", FALSE, NoDoc, FALSE, is_online, is_online)
    /\ UNCHANGED <<running, data, dirty, disk, is_online, stack, cont, clock,
                   faults, net, cyc, delivered, notified>>
    /\ UNCHANGED_threads

NextNotify ==
    \/ Start
    \/ \E callback \in OnlineCallbacks : AddOnlineCallback(callback)
    \/ \E callback \in OnlineCallbacks : RemoveOnlineCallback(callback)
    \/ \E o \in Answers : SubmitReport(LiveDoc, TRUE, o)
    \/ \E o \in Answers : GetVersions(o)
    \/ \E o \in Answers : DrainRespond(o)

SpecNotify == Init /\ [][NextNotify]_vars

----------------------------------------------------------------------------
(* The cache file between two runs of the tool *)

DamagedFiles == {MissingFile, TruncatedFile, UnreadableFile, NotAnObjectFile}

(* while the tool is not running the cache file is lost, cut short, made    *)
(* unreadable or overwritten                                                *)
DamageFile(file) ==
    /\ ~running
    /\ disk # file
    /\ disk' = file
    /\ ev' = Ev("damage", file.kind, FALSE, NoDoc, FALSE, FALSE, FALSE)
    /\ UNCHANGED <<running, data, dirty, is_online, stack, cont, clock, faults,
                   net, cyc, delivered, callbacks, notified>>
    /\ UNCHANGED_threads

NextLoad ==
    \/ Start
    \/ Exit
    \/ \E file \in DamagedFiles : DamageFile(file)
    \/ \E o \in Answers : SubmitReport(LiveDoc, TRUE, o)
    \/ \E o \in Answers : GetVersions(o)
    \/ \E o \in Answers : GetTests(o)
    \/ \E o \in Answers : DrainRespond(o)

SpecLoad == Init /\ [][NextLoad]_vars

(* C25: the constructor always completes, whatever the cache file is, and   *)
(* on a file that is missing, unreadable, not valid JSON, not an object or  *)
(* of another schema version the cache is the empty record, offline.        *)
C25_LoadNeverFatal ==
    /\ [](~running => ENABLED Start)
    /\ [][ev'.op = "start" =>
            /\ running'
            /\ ~is_online'
            /\ (disk.kind # "doc" \/ disk.doc.cache_version # CACHE_VERSION)
                  => data' = DefaultData]_vars

C25_Witness ==
    /\ ev.op = "start"
    /\ running
    /\ disk.kind \in {"truncated", "unreadable", "not_object"}
    /\ data = DefaultData

----------------------------------------------------------------------------
(* submit_report on a report file that cannot be used *)

(* what the report file is: not there, not readable, text that is not JSON, *)
(* bytes that are not UTF-8 text                                            *)
BadReportFiles == {"missing", "unreadable", "invalid_json", "not_utf8"}

(* submit_report up to json.load: the failed result it returns, or "raised" *)
(* when the exception is none of those it catches (UnicodeDecodeError is a  *)
(* ValueError, neither a JSONDecodeError nor an IOError)                    *)
ReadReport(file) ==
    CASE file = "missing" -> "File not found"
      [] file = "unreadable" -> "Could not read file"
      [] file = "invalid_json" -> "Invalid JSON"
      [] OTHER -> "raised"

SubmitBadReport(file) ==
    /\ Idle
    /\ Install(Fresh)
    /\ ev' = Ev("submit_report", ReadReport(file), TRUE, NoDoc, FALSE,
                is_online, is_online)
    /\ UNCHANGED <<running, cont, faults, net>>
    /\ UNCHANGED_threads

NextFile ==
    \/ Start
    \/ \E file \in BadReportFiles : SubmitBadReport(file)
    \/ \E o \in Answers : SubmitReport(LiveDoc, TRUE, o)
    \/ \E o \in Answers : GetVersions(o)
    \/ \E o \in Answers : DrainRespond(o)

SpecFile == Init /\ [][NextFile]_vars

(* C26: submit_report on a file that is missing or is not valid JSON        *)
(* returns a failed result with an error string, sends nothing, and leaves  *)
(* the pending queue and the online status as they were.                    *)
C26_BadFileFailsCleanly ==
    [][(ev'.op = "submit_report" /\ ev'.outcome \notin Answers) =>
          /\ ev'.outcome # "raised"
          /\ ev'.sent = NoDoc
          /\ ~ev'.upd
          /\ data' = data
          /\ disk' = disk
          /\ is_online' = is_online
          /\ stack' = stack]_vars

----------------------------------------------------------------------------
(* The notes of a test (main.py, api_client.py).  A note is the sequence of *)
(* its lexemes; each lexeme stands for the text it is written as, and "nl" *)
(* for a newline.  The code of every code block is the same plain word, and *)
(* every embedded image has the same data URI.                              *)

Word == "a"
Tag == "<b>"
LineBreak == "<br>"
EscapedTag == "&lt;b&gt;"
Fence == "'''code'''"   \* a fenced code block, its three backquotes written as '''
MarkedCode == "[[CODE]]code[[/CODE]]"
PreCode == "<pre><code>code</code></pre>"
PreCodeBlock == "<pre class=code-block><code>code</code></pre>"
ImageLink == "<a href=data:image><img src=data:image/></a>"
ImageMarker == "{{IMAGE:data:image}}"
Placeholder == "__CODE_BLOCK_0__"

(* anchors and img tags of two more images, each tag a lexeme of its own,  *)
(* and the markers of the two images                                       *)
AnchorA == "<a href=data:image/A>"
ImgA == "<img src=data:image/A>"
AnchorB == "<a href=data:image/B>"
ImgB == "<img src=data:image/B>"
ImageTags == {AnchorA, ImgA, AnchorB, ImgB}
ImageMarkers ==
    {ImageMarker, "{{IMAGE:data:image/A}}", "{{IMAGE:data:image/B}}"}

(* what a tester can have in the notes editor, or a session file in a note *)
Lexemes == {Word, "nl", Tag, LineBreak, EscapedTag, Fence, MarkedCode,
            PreCode, PreCodeBlock, ImageLink, ImageMarker}

MaxNote == 2
Notes == UNION {[1..n -> Lexemes] : n \in 0..MaxNote}

RECURSIVE Flat(_)
Flat(parts) == IF parts = <<>> THEN <<>> ELSE Head(parts) \o Flat(Tail(parts))

(* re.sub on a note: every lexeme the pattern matches is replaced by repl *)
Sub(text, pattern, repl) ==
    Flat([i \in 1..Len(text) |-> IF text[i] \in pattern THEN repl ELSE <<text[i]>>])

(* str.strip: the white space at both ends is dropped *)
RECURSIVE lstrip(_)
lstrip(text) ==
    IF text # <<>> /\ Head(text) = "nl" THEN lstrip(Tail(text)) ELSE text
RECURSIVE rstrip(_)
rstrip(text) ==
    IF text # <<>> /\ text[Len(text)] = "nl"
    THEN rstrip(SubSeq(text, 1, Len(text) - 1)) ELSE text
strip(text) == rstrip(lstrip(text))

(* re.search for a fenced code block, or for an {{IMAGE:data:image/ marker *)
has_markdown(notes) ==
    \E i \in 1..Len(notes) : notes[i] \in {Fence} \cup ImageMarkers

(* main.py convert_markdown_code_blocks_to_html *)
convert_markdown_code_blocks_to_html(text) ==
    Sub(text, {Fence}, <<PreCodeBlock>>)

(* the data:image URI in the href of an anchor, "" for any other lexeme *)
href(lexeme) ==
    CASE lexeme = ImageLink -> "data:image"
      [] lexeme = AnchorA -> "data:image/A"
      [] lexeme = AnchorB -> "data:image/B"
      [] OTHER -> ""

(* the data:image URI in the src of an img tag *)
src(lexeme) ==
    CASE lexeme = ImageLink -> "data:image"
      [] lexeme = ImgA -> "data:image/A"
      [] lexeme = ImgB -> "data:image/B"
      [] OTHER -> ""

(* the URI of the tag, href or src *)
href_or_src(lexeme) == IF href(lexeme) # "" THEN href(lexeme) ELSE src(lexeme)

(* "{{IMAGE:" + data_uri + "}}" *)
marker(data_uri) ==
    CASE data_uri = "data:image/A" -> "{{IMAGE:data:image/A}}"
      [] data_uri = "data:image/B" -> "{{IMAGE:data:image/B}}"
      [] OTHER -> ImageMarker

(* the loop body: img_data is appended unless seen_images has it *)
RECURSIVE unseen(_, _)
unseen(found, seen_images) ==
    IF found = <<>> THEN <<>>
    ELSE IF Head(found) \in seen_images
         THEN unseen(Tail(found), seen_images)
         ELSE <<Head(found)>> \o unseen(Tail(found), seen_images \cup {Head(found)})

(* one pass over the note, anchors and img tags together *)
scan_together(notes) ==
    SelectSeq([i \in 1..Len(notes) |-> href_or_src(notes[i])],
              LAMBDA uri : uri # "")

(* the two re.finditer loops: every anchor of the note, then every img *)
scan_anchors_then_imgs(notes) ==
    SelectSeq([i \in 1..Len(notes) |-> href(notes[i])], LAMBDA uri : uri # "")
      \o SelectSeq([i \in 1..Len(notes) |-> src(notes[i])], LAMBDA uri : uri # "")

(* extracted_images: the URIs found, one of each, as they will be appended *)
extracted_images(notes) ==
    LET found == unseen(scan_anchors_then_imgs(notes), {}) IN
    [i \in 1..Len(found) |-> marker(found[i])]

(* extract_marked_code_block and clean_explicit_code_block: the code block *)
(* is kept aside and a placeholder takes its place                         *)
extract_code_blocks(notes) ==
    Sub(notes, {MarkedCode, PreCode, PreCodeBlock}, <<Placeholder>>)

(* re.sub of the br tags by newlines *)
breaks_to_newlines(notes) ==
    Sub(notes, {LineBreak}, <<"nl">>)

(* re.sub of every tag by nothing *)
strip_tags(notes) ==
    Sub(notes, {Tag, LineBreak, ImageLink} \cup ImageTags, <<>>)

(* html.unescape *)
unescape(text) ==
    Sub(text, {EscapedTag}, <<Tag>>)

(* text.replace(placeholder, ...): the code block with newlines around it *)
restore_code_blocks(text, block) ==
    Sub(text, {Placeholder}, block)

(* re.sub of three or more newlines by two *)
RECURSIVE collapse_newlines(_)
collapse_newlines(text) ==
    IF Len(text) < 3 THEN text
    ELSE IF text[1] = "nl" /\ text[2] = "nl" /\ text[3] = "nl"
         THEN collapse_newlines(Tail(text))
         ELSE <<Head(text)>> \o collapse_newlines(Tail(text))

(* text += two newlines and {{IMAGE:data_uri}} for each image, then strip *)
append_images(text, images) ==
    IF images = <<>> THEN text
    ELSE strip(text \o Flat([i \in 1..Len(images) |-> <<"nl", "nl", images[i]>>]))

(* main.py clean_notes, on a note given by its lexemes *)
clean_notes_text(notes) ==
    IF notes = <<>> THEN <<>>
    ELSE IF has_markdown(notes)
    THEN strip(convert_markdown_code_blocks_to_html(notes))
    ELSE LET text == strip(unescape(strip_tags(breaks_to_newlines(
                         extract_code_blocks(notes)))))
             restored == restore_code_blocks(text, <<"nl", PreCode, "nl">>)
         IN append_images(strip(collapse_newlines(restored)),
                          extracted_images(notes))

(* api_client.py clean_notes_for_api, on a note given by its lexemes *)
clean_notes_for_api_text(notes) ==
    IF notes = <<>> THEN <<>>
    ELSE IF has_markdown(notes)
    THEN strip(notes)
    ELSE LET text == strip(unescape(strip_tags(extract_code_blocks(notes))))
             restored == restore_code_blocks(text, <<"nl", "nl", Fence, "nl", "nl">>)
         IN append_images(strip(collapse_newlines(restored)),
                          extracted_images(notes))

UNCHANGED_notes ==
    UNCHANGED <<running, data, dirty, disk, is_online, stack, cont, clock,
                faults, net, cyc, delivered, ev, tpc, tloc, session, up, req,
                offline_mode, wk, poll, callbacks, notified, hashing,
                subs, cache>>

(* the tester edits the notes of a test: notes.toHtml() is editor *)
TypeNotes(notes) ==
    /\ note' = [NoNote EXCEPT !.editor = notes, !.op = "type"]
    /\ UNCHANGED_notes

(* TestPage.finish: the result keeps clean_notes(notes.toHtml()) *)
TestPageFinish ==
    /\ note.op = "type"
    /\ note' = [note EXCEPT !.text = clean_notes_text(note.editor), !.op = "finish"]
    /\ UNCHANGED_notes

(* a session file or a report file is read: its notes are what it holds *)
LoadNotes(notes) ==
    /\ note' = [NoNote EXCEPT !.text = notes, !.op = "load"]
    /\ UNCHANGED_notes

(* compute_version_hash: the digest is over clean_notes of the result's notes *)
HashNotes ==
    /\ note.op \in {"finish", "load"}
    /\ note' = [note EXCEPT !.hashed = clean_notes_text(note.text),
                            !.has_hash = TRUE, !.op = "hash"]
    /\ UNCHANGED_notes

(* prepare_data_for_api: the request carries clean_notes_for_api of the notes *)
SendNotes ==
    /\ note.op \in {"hash", "load"}
    /\ note' = [note EXCEPT !.sent = clean_notes_for_api_text(note.text),
                            !.op = "send"]
    /\ UNCHANGED_notes

NextNotes ==
    \/ \E notes \in Notes : TypeNotes(notes)
    \/ TestPageFinish
    \/ \E notes \in Notes : LoadNotes(notes)
    \/ HashNotes
    \/ SendNotes

SpecNotes == InitUpload /\ [][NextNotes]_vars

(* C27: the canonicalizers are idempotent: cleaning the notes that         *)
(* clean_notes returned gives the same notes again, and so does            *)
(* clean_notes_for_api on the notes it returned.                           *)
C27_CanonicalizersIdempotent ==
    /\ note.op = "finish" => clean_notes_text(note.text) = note.text
    /\ note.op = "send" => clean_notes_for_api_text(note.sent) = note.sent

(* C28: the notes the client sends are the notes the digest was computed   *)
(* over.                                                                   *)
C28_SentNotesAreHashedNotes ==
    (note.op = "send" /\ note.has_hash) => note.sent = note.hashed

----------------------------------------------------------------------------
(* The digest of a version's results (main.py compute_version_hash).  A    *)
(* dict is the sequence of its items in insertion order; a test key is a   *)
(* number, its place in the order of the keys.                             *)

MaxResults == 2
TestKeys == 1..MaxResults
Statuses == {"Working", "Broken"}
(* the notes of a result: none, a word, the same word in markup *)
ResultNotes == {<<>>, <<Word>>, <<Tag, Word>>}
LogFiles == {"emulator.log"}

Results == [key : TestKeys, status : Statuses, notes : ResultNotes]
ResultSets ==
    {r \in UNION {[1..n -> Results] : n \in 0..MaxResults} :
        \A i, j \in 1..Len(r) : r[i].key = r[j].key => i = j}

(* results[tnum] = {...}: the item of an old key is replaced where it is, *)
(* the item of a new key goes to the end                                   *)
SetItem(dict, item) ==
    IF \E i \in 1..Len(dict) : dict[i].key = item.key
    THEN [i \in 1..Len(dict) |-> IF dict[i].key = item.key THEN item ELSE dict[i]]
    ELSE Append(dict, item)

(* json.dumps without sort_keys: the items in insertion order *)
json_dumps_unsorted(obj) == obj

(* json.dumps(data_to_hash, sort_keys=True, ...): the items of every dict *)
(* in the order of their keys, the items of a list as they are             *)
json_dumps(obj) ==
    [obj EXCEPT !.results = SortSeq(@, LAMBDA a, b : a.key < b.key)]

(* hashlib.sha256(...).hexdigest(): texts that differ have digests that    *)
(* differ                                                                  *)
sha256(text) == [sha256 |-> text]

(* main.py compute_version_hash of a result dict and its attached logs *)
compute_version_hash_of(results_data, attached_logs) ==
    LET cleaned_results ==
            [i \in 1..Len(results_data) |->
                [key |-> results_data[i].key,
                 status |-> results_data[i].status,
                 notes |-> clean_notes_text(results_data[i].notes)]]
        data_to_hash == [results |-> cleaned_results, logs |-> attached_logs]
    IN sha256(json_dumps(data_to_hash))

UNCHANGED_hashing ==
    UNCHANGED <<running, data, dirty, disk, is_online, stack, cont, clock,
                faults, net, cyc, delivered, ev, tpc, tloc, session, up, req,
                offline_mode, wk, poll, callbacks, notified, note,
                subs, cache>>

(* TestPage.finish: results[tnum] = {'status': status, 'notes': notes} *)
SetResult(item) ==
    /\ hashing' = [hashing EXCEPT !.results_data = SetItem(@, item), !.op = "set"]
    /\ UNCHANGED_hashing

(* a log file is attached to the version *)
AttachLog(log) ==
    /\ Len(hashing.attached_logs) < Cardinality(LogFiles)
    /\ \A i \in 1..Len(hashing.attached_logs) : hashing.attached_logs[i] # log
    /\ hashing' = [hashing EXCEPT !.attached_logs = Append(@, log), !.op = "attach"]
    /\ UNCHANGED_hashing

(* upload_to_panel: version_hashes[storage_key] = compute_version_hash(...) *)
ComputeVersionHash ==
    /\ hashing.op # "hash"
    /\ hashing' = [hashing EXCEPT
                      !.digest = compute_version_hash_of(hashing.results_data,
                                                         hashing.attached_logs),
                      !.op = "hash"]
    /\ UNCHANGED_hashing

NextHash ==
    \/ \E item \in Results : SetResult(item)
    \/ \E log \in LogFiles : AttachLog(log)
    \/ ComputeVersionHash

SpecHash == InitUpload /\ [][NextHash]_vars

(* two result dicts with the same keys and, key by key, the same status and *)
(* the same canonical notes                                                *)
SameResults(a, b) ==
    /\ {a[i].key : i \in 1..Len(a)} = {b[i].key : i \in 1..Len(b)}
    /\ \A i \in 1..Len(a), j \in 1..Len(b) :
          a[i].key = b[j].key =>
             /\ a[i].status = b[j].status
             /\ clean_notes_text(a[i].notes) = clean_notes_text(b[j].notes)

(* C29: the digest compute_version_hash returned is the digest of every    *)
(* result dict with the same keys, statuses, canonical notes and logs, in  *)
(* whatever order its items were inserted.                                 *)
C29_HashIgnoresInsertionOrder ==
    hashing.op = "hash" =>
        \A other \in ResultSets :
            SameResults(other, hashing.results_data) =>
                compute_version_hash_of(other, hashing.attached_logs) = hashing.digest

(* a digest was computed for a dict whose items are not in the order of    *)
(* their keys                                                              *)
C29_Witness ==
    /\ hashing.op = "hash"
    /\ Len(hashing.results_data) = 2
    /\ hashing.results_data[1].key > hashing.results_data[2].key
    /\ hashing.attached_logs # <<>>

----------------------------------------------------------------------------
(* PanelIntegration.retry_pending_submissions (panel_integration.py) and   *)
(* its caller, the Retry button of the version page (main.py).  A value is *)
(* a dict of two counts or an int.                                         *)

Counts(succeeded, failed) ==
    [type |-> "dict", succeeded |-> succeeded, failed |-> failed, value |-> 0]
Number(value) == [type |-> "int", succeeded |-> 0, failed |-> 0, value |-> value]

(* PanelIntegration.retry_pending_submissions, when the call of the client *)
(* it makes returned the number returned                                   *)
retry_pending_submissions(is_configured, returned) ==
    IF ~is_configured THEN Counts(0, 0) ELSE Number(returned)

(* C30: when PanelIntegration.retry_pending_submissions returns, its value *)
(* is a record of a 'succeeded' and a 'failed' count, and the two add up   *)
(* to the number of entries that were pending when it was called.          *)
C30_RetryReturnsCounts ==
    [][(/\ running'
        /\ cont' = "none"
        /\ \/ ev'.op = "retry_pending_submissions"
           \/ cont = "retry" /\ ev'.op = "retry_response")
       => LET result == retry_pending_submissions(running', cyc'.returned) IN
          /\ result.type = "dict"
          /\ result.succeeded + result.failed = Len(cyc'.start)]_vars

----------------------------------------------------------------------------
(* The command line of api_client.py (main).  A command makes one call of  *)
(* the client; the exit code is computed from what the call returned.       *)

Commands == {"submit", "check-retests", "test-connection", "daemon"}

(* the HTTP status of an answer that is not a success document *)
RejectStatuses == {401, 500}

(* TestPanelClient.test_connection: GET /api/retests.php *)
TestConnection(outcome) == Probe("test_connection", outcome)

(* test_connection returns response.status_code in (200, 401), and False   *)
(* when the request raised                                                  *)
test_connection(outcome, status) ==
    outcome = "ok" \/ (outcome = "reject" /\ status = 401)

(* the client call each command makes: the daemon's periodic check and     *)
(* check-retests both call get_retest_queue                                 *)
CommandsOf(op) ==
    CASE op = "submit_report" -> {"submit"}
      [] op = "get_retest_queue" -> {"check-retests", "daemon"}
      [] op = "test_connection" -> {"test-connection"}
      [] OTHER -> {}

(* main: the exit code of the command whose client call was answered with  *)
(* outcome (and status, when the server rejected it)                        *)
main(command, outcome, status) ==
    CASE command = "submit" -> IF outcome = "ok" THEN 0 ELSE 1
      [] command = "check-retests" -> 0
      [] command = "test-connection" ->
            IF test_connection(outcome, status) THEN 0 ELSE 1
      [] OTHER -> 0

NextCli ==
    \/ Start
    \/ \E o \in Answers : SubmitReport(LiveDoc, TRUE, o)
    \/ \E o \in Answers : GetRetestQueue(o)
    \/ \E o \in Answers : TestConnection(o)
    \/ \E o \in Answers : DrainRespond(o)

SpecCli == Init /\ [][NextCli]_vars

(* C31: a command exits with 0 when its call succeeded and with 1 when the *)
(* call ended in a handled failure: the server was not reached, or         *)
(* rejected the request.                                                   *)
C31_ExitCodeTellsFailure ==
    \A command \in CommandsOf(ev.op), status \in RejectStatuses :
        ev.outcome \in Answers =>
            main(command, ev.outcome, status) = IF ev.outcome = "ok" THEN 0 ELSE 1

----------------------------------------------------------------------------
(* C32: the remembered digest of a version changes only when the server    *)
(* accepted an upload that held the version, or answered skip for it in a  *)
(* successful hash check; a submission that was only queued for a retry    *)
(* confirms nothing.                                                       *)
C32_DigestOnlyAfterAcceptance ==
    [][session # NewSession =>
         \A v \in Vids :
            session'.upload_hashes[v] # session.upload_hashes[v] =>
               \/ /\ up.pc = "signalled"
                  /\ up.result = "success"
                  /\ v \in up.pending
               \/ /\ up.pc = "idle"
                  /\ HashCheckSuccess(up'.check)
                  /\ up'.answer[v] = "skip"]_vars

----------------------------------------------------------------------------
(* Uploads that overlap (main.py, panel_integration.py): the end of        *)
(* upload_to_panel writes session_results_upload.json, stores the versions *)
(* in Controller._pending_upload_versions (up.pending) and starts a thread; *)
(* nothing keeps a second upload from starting while a thread is running.  *)

MaxUploads == 2

UNCHANGED_uploads ==
    UNCHANGED <<running, data, dirty, disk, is_online, stack, cont, clock,
                faults, net, cyc, delivered, ev, tpc, tloc, req, offline_mode,
                wk, poll, callbacks, notified, note, hashing, cache>>

(* upload_to_panel from the writing of the upload file on, for the changed *)
(* versions the hash check left                                            *)
StartSubmission(changed) ==
    /\ ~up.dialog
    /\ Len(subs.threads) < MaxUploads
    /\ changed # {}
    /\ changed \subseteq valid_results(session.results)
    /\ up' = [up EXCEPT !.pending = changed, !.dialog = TRUE]
    /\ subs' = [subs EXCEPT
                  !.file = changed,
                  !.file_exists = TRUE,
                  !.threads = Append(@, [batch |-> changed, sent |-> {},
                                         pc |-> "started", success |-> FALSE,
                                         confirmed |-> {}])]
    /\ UNCHANGED session
    /\ UNCHANGED_uploads

(* _async_submit: submit_report reads the upload file and posts it; the    *)
(* signal carries True for an accepted and for a queued report             *)
AsyncSubmit(i, outcome) ==
    /\ i \in 1..Len(subs.threads)
    /\ subs.threads[i].pc = "started"
    /\ subs' = [subs EXCEPT
                  !.threads[i].sent = IF subs.file_exists THEN subs.file ELSE {},
                  !.threads[i].success =
                      subs.file_exists /\ outcome \in {"ok", "transport"},
                  !.threads[i].pc = "signalled",
                  !.signals = Append(@, i)]
    /\ UNCHANGED <<session, up>>
    /\ UNCHANGED_uploads

(* Controller._on_submission_complete for the oldest signal not yet        *)
(* delivered                                                               *)
SubmissionComplete ==
    /\ subs.signals # <<>>
    /\ LET i == Head(subs.signals)
           success == subs.threads[i].success
       IN /\ session' = IF success
                        THEN [session EXCEPT !.upload_hashes =
                                 [v \in Vids |->
                                     IF v \in up.pending
                                     THEN compute_version_hash(session.results[v])
                                     ELSE session.upload_hashes[v]]]
                        ELSE session
          /\ up' = [up EXCEPT !.pending = {}, !.dialog = FALSE]
          /\ subs' = [subs EXCEPT
                        !.signals = Tail(@),
                        !.file_exists = IF success THEN FALSE ELSE @,
                        !.threads[i].pc = "done",
                        !.threads[i].confirmed = IF success THEN up.pending ELSE {}]
    /\ UNCHANGED_uploads

NextOverlap ==
    \/ \E results \in [Vids -> Contents] : LoadSession(results, [v \in Vids |-> NoHash])
    \/ \E changed \in SUBSET Vids : StartSubmission(changed)
    \/ DismissDialog
    \/ \E i \in 1..MaxUploads, o \in Answers : AsyncSubmit(i, o)
    \/ SubmissionComplete

SpecOverlap == InitUpload /\ [][NextOverlap]_vars

(* C33: each completion confirms the versions of its own submission: after *)
(* a successful completion the versions whose digest was recorded are the  *)
(* versions that submission sent, and a failed completion records none and *)
(* leaves the versions of a submission still in flight to be confirmed.    *)
C33_CompletionConfirmsOwnBatch ==
    \A i \in 1..Len(subs.threads) :
        subs.threads[i].pc = "done" =>
            subs.threads[i].confirmed =
                IF subs.threads[i].success THEN subs.threads[i].sent ELSE {}

----------------------------------------------------------------------------
(* C34: no step of a drain makes the pending queue longer: a retry that    *)
(* fails, on transport or by rejection, is not queued again.               *)
C34_DrainNeverAddsEntry ==
    [][(stack # <<>> /\ running /\ running')
          => Len(data'.pending_submissions) <= Len(data.pending_submissions)]_vars

(* a retry failed on transport while a drain was running, and the entry is *)
(* still in the queue, once                                                *)
C34_Witness ==
    /\ ev.op = "retry_response"
    /\ ev.outcome = "transport"
    /\ cyc.state \in {"running", "done"}
    /\ Len(data.pending_submissions) >= 1
    /\ \E k \in Keys : cyc.rej[k] = "transport"

----------------------------------------------------------------------------
(* An answer to POST /api/submit.php whose status is not 201.  The body is *)
(* a JSON object with an "error" entry, a JSON object without one, text    *)
(* that is not JSON, or JSON that is not an object (a list, a string, a    *)
(* number, null).                                                          *)
RejectBodies == {"error_object", "object", "not_json", "not_object"}

(* what submit_report and submit_report_data hand to the caller for such   *)
(* an answer: response.json() is kept, or replaced by a dictionary when it *)
(* raised JSONDecodeError, and result.get("error", "HTTP <status>") is the *)
(* error of the failed SubmitResult; a body that is no dictionary has no   *)
(* get, and the AttributeError is caught by no except clause.              *)
rejected_result(body) ==
    CASE body = "error_object" ->
            [kind |-> "SubmitResult", success |-> FALSE, error |-> "server error"]
      [] body \in {"object", "not_json"} ->
            [kind |-> "SubmitResult", success |-> FALSE, error |-> "HTTP status"]
      [] OTHER ->
            [kind |-> "AttributeError", success |-> FALSE, error |-> ""]

(* the bodies that are a dictionary once response.json() has returned or  *)
(* its JSONDecodeError has been caught                                     *)
DocumentBodies == RejectBodies \ {"not_object"}

----------------------------------------------------------------------------
(* The keys of the cache document.  DataCache._load replaces _data by the   *)
(* document of the file when its cache_version matches, with the keys the   *)
(* file has; the methods of the cache then read and write _data by key.     *)
(* The values are left out here: cache.keys is the set of keys of _data.    *)

DocumentKeys ==
    {"last_sync", "versions", "versions_hash", "tests", "tests_hash",
     "categories", "version_tests", "version_skip_tests",
     "pending_submissions", "connection_status"}

MaxAbsent == 2

(* the keys edited away from a cache file *)
EditedAway == {absent \in SUBSET DocumentKeys : Cardinality(absent) <= MaxAbsent}

CacheMethods ==
    {"set_versions", "set_tests", "set_version_tests", "clear_version_tests",
     "add_pending_submission", "remove_pending_submission",
     "update_pending_submission", "set_online_status", "clear", "getters"}

(* the keys a method reads with _data[key]; every other read is a          *)
(* _data.get(key, default) or is guarded by a test of the key              *)
subscripted(method) ==
    IF method = "set_online_status" THEN {"connection_status"} ELSE {}

(* the keys a method assigns *)
assigned(method) ==
    CASE method = "set_versions" -> {"versions", "versions_hash", "last_sync"}
      [] method = "set_tests" -> {"tests", "categories", "tests_hash", "last_sync"}
      [] method = "set_version_tests" -> {"version_tests", "version_skip_tests"}
      [] method = "add_pending_submission" -> {"pending_submissions"}
      [] method = "clear" -> DocumentKeys
      [] OTHER -> {}

UNCHANGED_cache ==
    UNCHANGED <<running, data, dirty, disk, is_online, stack, cont, clock,
                faults, net, cyc, delivered, ev, tpc, tloc, session, up, req,
                offline_mode, wk, poll, callbacks, notified, note, hashing,
                subs>>

(* DataCache(cache_path) on a file that holds a document of the current    *)
(* cache_version without the keys in absent                                *)
LoadDocument(absent) ==
    /\ cache' = [keys |-> DocumentKeys \ absent, op |-> "_load", raised |-> "none"]
    /\ UNCHANGED_cache

(* a call of a method of the cache after the load *)
CacheCall(method) ==
    /\ cache.op # "none"
    /\ cache' = IF subscripted(method) \subseteq cache.keys
                THEN [keys |-> cache.keys \cup assigned(method),
                      op |-> method, raised |-> "none"]
                ELSE [cache EXCEPT !.op = method, !.raised = "KeyError"]
    /\ UNCHANGED_cache

NextKeys ==
    \/ \E absent \in EditedAway : LoadDocument(absent)
    \/ \E method \in CacheMethods : CacheCall(method)

SpecKeys == InitUpload /\ [][NextKeys]_vars

(* C36: after the cache has loaded a file whose cache_version matches,     *)
(* every later cache operation completes without raising, whichever keys   *)
(* the document holds.                                                     *)
C36_CacheOperationsNeverRaise ==
    cache.op # "none" => cache.raised = "none"

----------------------------------------------------------------------------
(* C37: DataCache.save writes only when the dirty flag is set; a write     *)
(* that succeeds clears the flag; a write that fails (the file cannot be   *)
(* opened) returns with the flag as it was, so that a later save writes    *)
(* again.                                                                  *)
C37_SaveFollowsDirtyFlag ==
    [][running' =>
         /\ disk' # disk => \E t \in CacheThreads : tpc[t] \in {"open", "dump"}
         /\ \A t \in CacheThreads :
            /\ (tpc[t] = "save" /\ tpc'[t] # "save") =>
                  IF dirty
                  THEN tpc'[t] = "open"
                  ELSE tpc'[t] = "idle" /\ disk' = disk /\ dirty' = dirty
            /\ (tpc[t] = "open" /\ tpc'[t] = "idle") =>
                  disk' = disk /\ dirty' = dirty
            /\ (tpc[t] = "clear" /\ tpc'[t] = "idle") => ~dirty']_vars

(* a save could not open the file and returned: the flag is still set and  *)
(* the file does not hold the pending list of the cache                    *)
C37_Witness ==
    /\ running
    /\ dirty
    /\ ev.outcome = "returned"
    /\ \A t \in CacheThreads : tpc[t] = "idle"
    /\ FilePending(disk) # data.pending_submissions

----------------------------------------------------------------------------
(* The ApiWorker with its signals, the callbacks of PanelIntegration and   *)
(* _stop_worker (panel_integration.py)                                     *)

NextWorker ==
    \/ \E callback \in BOOLEAN : QueueTaskLock("get_tests", callback)
    \/ QueueTaskAppend
    \/ QueueTaskStart
    \/ LoopLock
    \/ LoopWait
    \/ LoopWake
    \/ LoopPop
    \/ LoopBreak
    \/ \E outcome \in TaskOutcomes : ProcessTask(outcome)
    \/ DeliverSignal
    \/ StopLock
    \/ StopJoin

SpecWorker == InitUpload /\ [][NextWorker]_vars

(* the worker thread and the interactive thread go on running: the steps   *)
(* of run, the rest of a queue_task or stop call that has begun, and the   *)
(* delivery of signals by the event loop are taken when they can be        *)
LiveSpecWorker ==
    /\ SpecWorker
    /\ WF_vars(QueueTaskAppend)
    /\ WF_vars(QueueTaskStart)
    /\ WF_vars(LoopLock)
    /\ WF_vars(LoopWait)
    /\ WF_vars(LoopWake)
    /\ WF_vars(LoopPop)
    /\ WF_vars(LoopBreak)
    /\ WF_vars(\E outcome \in TaskOutcomes : ProcessTask(outcome))
    /\ WF_vars(DeliverSignal)
    /\ WF_vars(StopJoin)

SignalsOf(operation_id) ==
    {j \in 1..Len(wk.signals) : wk.signals[j].operation_id = operation_id}

(* C38: for every task the worker has processed exactly one signal, result *)
(* or error, was emitted with the operation id of the task, and no signal  *)
(* without a task; a callback is invoked at most once, and once invoked it *)
(* is no longer registered.                                                *)
C38_OneSignalOneCallback ==
    /\ Len(wk.signals) = Len(wk.log)
    /\ \A k \in 1..Len(wk.log) : Cardinality(SignalsOf(wk.log[k])) = 1
    /\ \A a, b \in 1..Len(wk.invoked) : a # b => wk.invoked[a] # wk.invoked[b]
    /\ \A a \in 1..Len(wk.invoked) : wk.invoked[a] \notin wk.pending_callbacks

(* two tasks were processed, one ended in error_occurred, and both         *)
(* callbacks have been called                                              *)
C38_Witness ==
    /\ Len(wk.log) >= 2
    /\ \E j \in 1..Len(wk.signals) : wk.signals[j].signal = "error_occurred"
    /\ Len(wk.invoked) >= 2
    /\ wk.handled = Len(wk.signals)

(* C39: every task that is in the queue of the worker is eventually        *)
(* processed, and a callback that is registered is eventually invoked,     *)
(* tasks that are in the queue when stop() is called included.             *)
C39_EveryTaskProcessed ==
    \A i \in 1..MaxTasks :
        /\ (\E k \in 1..Len(wk.tasks) : wk.tasks[k].id = i)
              ~> (\E k \in 1..Len(wk.log) : wk.log[k] = i)
        /\ (i \in wk.pending_callbacks /\ i <= wk.queued)
              ~> (\E k \in 1..Len(wk.invoked) : wk.invoked[k] = i)

----------------------------------------------------------------------------
(* Notes with several embedded images *)

MaxImages == 3
ImageNotes == UNION {[1..n -> {Word} \cup ImageTags] : n \in 0..MaxImages}

NextImages ==
    \/ \E notes \in ImageNotes : TypeNotes(notes)
    \/ TestPageFinish
    \/ \E notes \in ImageNotes : LoadNotes(notes)
    \/ HashNotes
    \/ SendNotes

SpecImages == InitUpload /\ [][NextImages]_vars

(* the images of a note in the order of their first appearance, as markers *)
InOrderOfAppearance(notes) ==
    LET found == unseen(scan_together(notes), {}) IN
    [i \in 1..Len(found) |-> marker(found[i])]

(* the markers at the end of a cleaned note *)
MarkersOf(text) == SelectSeq(text, LAMBDA lexeme : lexeme \in ImageMarkers)

(* C40: the images the canonicalizers extract are the images of the note   *)
(* in the order of their first appearance, anchors and img tags together,  *)
(* one of each payload, and the markers are appended in that order.        *)
C40_ImagesInOrderOfAppearance ==
    /\ note.op = "finish" => MarkersOf(note.text) = InOrderOfAppearance(note.editor)
    /\ (note.op = "send" /\ ~note.has_hash) =>
           MarkersOf(note.sent) = InOrderOfAppearance(note.text)
====
